---- MODULE Spec2Model ----
(***************************************************************************)
(* Order-page detection and product-extraction pipeline of the             *)
(* subscribe-any browser extension: URL classifier, page classifier,       *)
(* HTML sanitizer and LLM-response parser (extension/src/lib/detector.ts   *)
(* and extension/src/lib/llm.ts).                                          *)
(*                                                                         *)
(* Strings are TLA+ strings; regular expressions are data (small syntax    *)
(* trees) interpreted by the matcher M below, so each pattern table of the *)
(* source is a table here.  Confidences are kept in hundredths (0.85 is    *)
(* 85): every confidence of the source is a multiple of 0.05 and every sum *)
(* that stays below 1.0 has a single term, so the integer arithmetic is    *)
(* exact where the source's floating point is compared with a threshold.   *)
(***************************************************************************)
EXTENDS Integers, Sequences, FiniteSets, TLC

VARIABLES
  pc,            \* which step of the exercised function has run
  url,           \* input of the URL classifiers
  urlResult,     \* PageDetectionResult of isLikelyOrderConfirmationUrl
  detailsResult, \* PageDetectionResult of isOrderDetailsPage
  page,          \* {url, title, bodyText} given to the page classifier
  prevResult,    \* page classifier result before the last page change
  pageResult,    \* PageDetectionResult of isLikelyOrderConfirmationPage
  rawHtml,       \* input of extractPageContent
  content,       \* {html, text} returned by extractPageContent
  content2,      \* extractPageContent applied to content.html
  edits,         \* number of changes made to the page since it was loaded
  response,      \* response text given to parseOrderAnalysis
  analysis,      \* OrderAnalysis returned by parseOrderAnalysis
  worker,        \* service worker: llm.ts module state and the request in hand
  run,           \* content script: the detection run in hand
  subs,          \* subscriptions table, clock and the calls in progress
  dom,           \* DOM fallback: the document and the extraction in hand
  wait,          \* waitForDynamicContent: timers, observer and the promise
  tab,           \* content script: the page context and the runs in progress
  reminders      \* service worker: listeners, checks and clicks in progress

\* the state of the classifiers, the sanitizer and the response parser
pageVars == <<pc, url, urlResult, detailsResult, page, prevResult, pageResult,
              edits, rawHtml, content, content2, response, analysis>>

\* the variables of the wait, the page context and the reminder system
lateVars == <<wait, tab, reminders>>

\* the state of the service worker, the content script, the subscriptions
\* and the DOM fallback
extensionVars == <<worker, run, subs, dom, lateVars>>

vars == <<pageVars, extensionVars>>

\* the value of a variable in the specifications that do not exercise it
Unused == <<>>

LateUnused ==
  /\ wait = Unused
  /\ tab = Unused
  /\ reminders = Unused

ExtensionUnused ==
  /\ worker = Unused
  /\ run = Unused
  /\ subs = Unused
  /\ dom = Unused
  /\ LateUnused

(***************************************************************************)
(* Characters and strings                                                  *)
(***************************************************************************)
At(s, i) == SubSeq(s, i, i)

Chars(str) == {At(str, k) : k \in 1..Len(str)}

UPPER == "ABCDEFGHIJKLMNOPQRSTUVWXYZ"

LOWER == "abcdefghijklmnopqrstuvwxyz"

UpperSet == Chars(UPPER)

LowerSet == Chars(LOWER)

DigitSet == Chars("0123456789")

WordSet == UpperSet \cup LowerSet \cup DigitSet \cup {"_"}

SpaceSet == {" ", "\t", "\n", "\r", "\f"}

LineTerminators == {"\n", "\r"}

QuoteSet == {"\"", "'"}

LowerOf == [c \in UpperSet |-> At(LOWER, CHOOSE k \in 1..26 : At(UPPER, k) = c)]

LowerChar(c) == IF c \in UpperSet THEN LowerOf[c] ELSE c

\* String.prototype.toLowerCase, by halves
RECURSIVE ToLower(_)
ToLower(s) ==
  IF Len(s) <= 1
    THEN LowerChar(s)
    ELSE LET h == Len(s) \div 2
         IN  ToLower(SubSeq(s, 1, h)) \o ToLower(SubSeq(s, h + 1, Len(s)))

SetMin(S) == CHOOSE x \in S : \A y \in S : x <= y

SetMax(S) == CHOOSE x \in S : \A y \in S : x >= y

\* s has the literal lit at position i (case-sensitive)
StartsAt(s, i, lit) ==
  /\ i >= 1
  /\ i + Len(lit) - 1 <= Len(s)
  /\ SubSeq(s, i, i + Len(lit) - 1) = lit

\* the same, ignoring case (lit is written in lower case)
StartsAtI(s, i, lit) ==
  /\ i >= 1
  /\ i + Len(lit) - 1 <= Len(s)
  /\ ToLower(SubSeq(s, i, i + Len(lit) - 1)) = lit

StartsWith(s, lit) == StartsAt(s, 1, lit)

(***************************************************************************)
(* Regular expressions.  A pattern is a tree:                              *)
(*   <<"lit", str>>    the literal str                                     *)
(*   <<"ilit", str>>   the literal str under the i flag (str lower case)   *)
(*   <<"cls", name>>   one character of a class                            *)
(*   <<"cat", <<..>>>> concatenation       <<"alt", <<..>>>> alternation   *)
(*   <<"star", r>>  <<"plus", r>>  <<"opt", r>>                            *)
(*   <<"end">>  $ (no m flag)       <<"wb">>  \b                           *)
(*   <<"notahead", r>>  the negative lookahead (?!r)                       *)
(* M(re, s, i) is the set of positions at which a match of re that starts  *)
(* at position i of s can end (the position after its last character).     *)
(***************************************************************************)
InClass(name, c) ==
  CASE name = "digit"     -> c \in DigitSet                    \* \d
    [] name = "space"     -> c \in SpaceSet                    \* \s
    [] name = "word"      -> c \in WordSet                     \* \w
    [] name = "worddash"  -> c \in WordSet \cup {"-"}          \* [\w-]
    [] name = "colonsp"   -> c \in SpaceSet \cup {":"}         \* [:\s]
    [] name = "dot"       -> c \notin LineTerminators          \* .
    [] name = "any"       -> TRUE                              \* [\s\S]
    [] name = "notslash"  -> c # "/"                           \* [^\/]
    [] name = "notdash"   -> c # "-"                           \* [^-]
    [] name = "notlt"     -> c # "<"                           \* [^<]
    [] name = "notgt"     -> c # ">"                           \* [^>]
    [] name = "notdq"     -> c # "\""                          \* [^"]
    [] name = "notquote"  -> c \notin QuoteSet                 \* [^"']
    [] name = "quote"     -> c \in QuoteSet                    \* ["']
    [] name = "alpha"     -> c \in UpperSet \cup LowerSet      \* [a-z] /i
    [] name = "alnum"     -> c \in UpperSet \cup LowerSet \cup DigitSet \* [a-z0-9] /i
    [] name = "alnumdash" -> c \in UpperSet \cup LowerSet \cup DigitSet \cup {"-"} \* [a-z0-9-] /i
    [] name = "colonhash" -> c \in {":", "#"}                  \* [:#]
    [] name = "jsonws"    -> c \in {" ", "\t", "\n", "\r"}     \* JSON white space
    [] name = "strchar"   -> c \notin {"\"", "\\", "\n", "\t", "\r", "\f"} \* JSON string character

IsWordAt(s, i) == i >= 1 /\ i <= Len(s) /\ At(s, i) \in WordSet

\* the least position in lo..hi whose character is not of the class, hi + 1
\* when there is none (found by bisection)
RECURSIVE FirstStop(_, _, _, _)
FirstStop(name, s, lo, hi) ==
  IF lo > hi THEN lo
  ELSE IF lo = hi THEN (IF InClass(name, At(s, lo)) THEN lo + 1 ELSE lo)
  ELSE LET mid == (lo + hi) \div 2
       IN  IF \E k \in lo..mid : ~InClass(name, At(s, k))
             THEN FirstStop(name, s, lo, mid)
             ELSE FirstStop(name, s, mid + 1, hi)

\* the ends of class* from position i: any prefix of the run of class
\* characters that begins at i
ClassRun(name, s, i) == i..FirstStop(name, s, i, Len(s))

RECURSIVE M(_, _, _), MCat(_, _, _), MStar(_, _, _)
M(re, s, i) ==
  CASE re[1] = "lit"  -> IF StartsAt(s, i, re[2]) THEN {i + Len(re[2])} ELSE {}
    [] re[1] = "ilit" -> IF StartsAtI(s, i, re[2]) THEN {i + Len(re[2])} ELSE {}
    [] re[1] = "cls"  -> IF i <= Len(s) /\ InClass(re[2], At(s, i)) THEN {i + 1} ELSE {}
    [] re[1] = "cat"  -> MCat(re[2], s, {i})
    [] re[1] = "alt"  -> UNION {M(re[2][k], s, i) : k \in DOMAIN re[2]}
    [] re[1] = "star" -> IF re[2][1] = "cls"
                           THEN ClassRun(re[2][2], s, i)
                           ELSE MStar(re[2], s, {i})
    [] re[1] = "plus" -> IF re[2][1] = "cls"
                           THEN ClassRun(re[2][2], s, i) \ {i}
                           ELSE MStar(re[2], s, M(re[2], s, i))
    [] re[1] = "opt"  -> {i} \cup M(re[2], s, i)
    [] re[1] = "end"  -> IF i = Len(s) + 1 THEN {i} ELSE {}
    [] re[1] = "wb"   -> IF IsWordAt(s, i - 1) # IsWordAt(s, i) THEN {i} ELSE {}
    [] re[1] = "notahead" -> IF M(re[2], s, i) = {} THEN {i} ELSE {}

MCat(res, s, S) ==
  IF Len(res) = 0 \/ S = {}
    THEN S
    ELSE MCat(Tail(res), s, UNION {M(Head(res), s, i) : i \in S})

MStar(re, s, S) ==
  LET T == S \cup UNION {M(re, s, i) : i \in S}
  IN  IF T = S THEN S ELSE MStar(re, s, T)

\* RegExp.prototype.test for a pattern without the g flag
Test(re, s) == \E i \in 1..(Len(s) + 1) : M(re, s, i) # {}

\* The patterns of the classifier tables carry the i flag.  Their literals are
\* written in lower case here and they are tested against the subject folded
\* to lower case, which the classifiers do once per subject (Fold).
Fold(s) == ToLower(s)

TestI(re, s) == Test(re, Fold(s))

L(str) == <<"lit", str>>

IL(str) == <<"ilit", str>>

Cls(name) == <<"cls", name>>

Cat(res) == <<"cat", res>>

Alt(res) == <<"alt", res>>

Star(re) == <<"star", re>>

Plus(re) == <<"plus", re>>

Opt(re) == <<"opt", re>>

AtEnd == <<"end">>

WordBoundary == <<"wb">>

NotAhead(re) == <<"notahead", re>>

Sig(pattern, trigger, confidence) ==
  [pattern |-> pattern, trigger |-> trigger, confidence |-> confidence]

(***************************************************************************)
(* URL classifier: pattern tables                                          *)
(***************************************************************************)
ORDER_CONFIRMATION_PATTERNS == <<
  Sig(L("/checkout/order-confirmation"), "checkout-order-confirmation", 90),
  Sig(L("/order-confirmation"), "url-order-confirmation", 85),
  Sig(L("/order/confirm"), "url-order-confirm", 80),
  Sig(L("/order/success"), "url-order-success", 80),
  Sig(L("/checkout/complete"), "url-checkout-complete", 80),
  Sig(Cat(<<L("/checkout/thank"), Opt(L("-")), L("you")>>), "url-checkout-thank-you", 75),
  Sig(Cat(<<L("/order/thank"), Opt(L("-")), L("you")>>), "url-order-thank-you", 85),
  Sig(Cat(<<L("/thank"), Opt(L("-")), L("you"), Star(Cls("dot")), L("order")>>),
      "url-thank-you-order", 75),
  Sig(L("/purchase/complete"), "url-purchase-complete", 80),
  Sig(L("/receipt"), "url-receipt", 70),
  Sig(Cat(<<L("/confirmation"), Opt(L("/")), AtEnd>>), "url-confirmation", 60),
  Sig(Cat(<<L("/orders/"), Plus(Cls("digit"))>>), "url-order-view", 70),
  Sig(Cat(<<L("/order/"), Plus(Cls("digit"))>>), "url-order-id", 70) >>

ORDER_DETAILS_PATTERNS == <<
  Sig(L("/order-details"), "order-details", 90),
  Sig(L("/order/details"), "order-slash-details", 90),
  Sig(Cat(<<L("/previous-orders"), Star(Cls("dot")), L("order")>>), "previous-order-details", 90),
  Sig(Cat(<<L("/my-account"), Star(Cls("dot")), L("order")>>), "account-order", 85),
  Sig(Cat(<<L("/account"), Star(Cls("dot")), L("order-details")>>), "account-order-details", 90),
  Sig(Cat(<<L("/orders/"), Plus(Cls("digit"))>>), "order-details-id", 85),
  Sig(Cat(<<L("/order/"), Plus(Cls("digit"))>>), "order-detailed-id", 85),
  Sig(L("orderid="), "order-id-param", 85),
  Sig(L("order_id="), "order-id-param-underscore", 85),
  Sig(L("/order/view"), "order-view", 85),
  Sig(L("/view-order"), "view-order", 85),
  Sig(L("/order-history"), "order-history", 70),
  Sig(L("/your-orders"), "your-orders", 70),
  Sig(L("/purchase-history"), "purchase-history", 70) >>

EXCLUDE_PATTERNS == <<
  Cat(<<L("/cart"), Opt(L("/")), AtEnd>>),
  L("/cart?"),
  Cat(<<L("/checkout"), Opt(L("/")), AtEnd>>),
  L("/dp/"),
  Cat(<<L("/product/"), Plus(Cls("notslash")), Opt(L("/")), AtEnd>>),
  L("/login"),
  L("/signin"),
  L("/register"),
  L("/password") >>

\* the thresholds of lib/detector.ts, in hundredths
URL_LIKELY_THRESHOLD == 60

DETAILS_LIKELY_THRESHOLD == 70

Max2(a, b) == IF a >= b THEN a ELSE b

Min2(a, b) == IF a <= b THEN a ELSE b

Result(isLikely, confidence, triggers) ==
  [isLikelyOrderConfirmation |-> isLikely, confidence |-> confidence, triggers |-> triggers]

\* no classification made yet
NoResult == Result(FALSE, -1, <<>>)

\* for (const {pattern, trigger, confidence} of table) if (pattern.test(s)) {
\*   triggers.push(trigger); maxConfidence = Math.max(maxConfidence, confidence) }
\* acc is <<triggers, maxConfidence>>; s is the folded subject
RECURSIVE MaxLoop(_, _, _, _)
MaxLoop(table, s, k, acc) ==
  IF k > Len(table)
    THEN acc
    ELSE MaxLoop(table, s, k + 1,
           IF Test(table[k].pattern, s)
             THEN <<Append(acc[1], table[k].trigger), Max2(acc[2], table[k].confidence)>>
             ELSE acc)

IsExcludedUrl(u) ==
  LET s == Fold(u)
  IN  \E k \in DOMAIN EXCLUDE_PATTERNS : Test(EXCLUDE_PATTERNS[k], s)

(***************************************************************************)
(* URL classifier: the two functions                                       *)
(***************************************************************************)
\* a classifier that tests the confirmation table before the exclude list
UrlIgnoringExclusion(u) ==
  LET acc == MaxLoop(ORDER_CONFIRMATION_PATTERNS, Fold(u), 1, <<<<>>, 0>>)
  IN  Result(acc[2] >= URL_LIKELY_THRESHOLD, acc[2], acc[1])

\* a classifier that adds the confidences of the matching patterns
RECURSIVE SumLoop(_, _, _, _)
SumLoop(table, s, k, acc) ==
  IF k > Len(table)
    THEN acc
    ELSE SumLoop(table, s, k + 1,
           IF Test(table[k].pattern, s)
             THEN <<Append(acc[1], table[k].trigger), acc[2] + table[k].confidence>>
             ELSE acc)

UrlSummingConfidence(u) ==
  IF IsExcludedUrl(u)
    THEN Result(FALSE, 0, <<>>)
    ELSE LET acc == SumLoop(ORDER_CONFIRMATION_PATTERNS, Fold(u), 1, <<<<>>, 0>>)
         IN  Result(acc[2] >= URL_LIKELY_THRESHOLD, acc[2], acc[1])

isLikelyOrderConfirmationUrl(u) ==
  IF IsExcludedUrl(u)
    THEN Result(FALSE, 0, <<>>)
    ELSE LET acc == MaxLoop(ORDER_CONFIRMATION_PATTERNS, Fold(u), 1, <<<<>>, 0>>)
         IN  Result(acc[2] >= URL_LIKELY_THRESHOLD, acc[2], acc[1])

getUrlConfidenceScore(u) == isLikelyOrderConfirmationUrl(u).confidence

\* a details classifier that consults the exclude list first
DetailsWithExclusion(u) ==
  IF IsExcludedUrl(u)
    THEN Result(FALSE, 0, <<>>)
    ELSE LET acc == MaxLoop(ORDER_DETAILS_PATTERNS, Fold(u), 1, <<<<>>, 0>>)
         IN  Result(acc[2] >= DETAILS_LIKELY_THRESHOLD, acc[2], acc[1])

isOrderDetailsPage(u) ==
  LET acc == MaxLoop(ORDER_DETAILS_PATTERNS, Fold(u), 1, <<<<>>, 0>>)
  IN  Result(acc[2] >= DETAILS_LIKELY_THRESHOLD, acc[2], acc[1])

(***************************************************************************)
(* URLs the classifiers are exercised on: a host followed by at most       *)
(* MaxUrlParts path or query fragments, and the URLs of the test suite.    *)
(***************************************************************************)
MaxUrlParts == 2

UrlHost == "https://shop.example.com"

UrlParts == {
  "/", "/cart", "/checkout", "/order-confirmation", "/order", "/confirm",
  "/THANK-you", "/confirmation", "/orders", "/12", "/dp", "/product", "/login",
  "?orderId=7" }

AMAZON_THANKYOU_URL == "https://www.amazon.com/gp/buy/thankyou/handlers/display.html"

TestSuiteUrls == {
  AMAZON_THANKYOU_URL,
  "https://www.amazon.com/gp/css/order-history",
  "https://shop.example.com/checkout/thank-you",
  "https://store.example.com/order-confirmation?id=12345",
  "https://www.target.com/co-thankyou",
  "https://www.amazon.com/dp/B08N5WRWNW",
  "https://www.amazon.com/gp/cart/view.html",
  "https://mystore.myshopify.com/12345/orders/67890/authenticate",
  "https://www.google.com/" }

RECURSIVE UrlsOfParts(_)
UrlsOfParts(n) ==
  IF n = 0
    THEN {UrlHost}
    ELSE LET shorter == UrlsOfParts(n - 1)
         IN  shorter \cup {u \o p : u \in shorter, p \in UrlParts}

\* the remaining entries of the exclude list, each with an order signal
ExcludedOrderUrls == {
  "https://shop.example.com/SignIn?order_id=7",
  "https://shop.example.com/register/order-confirmation",
  "https://shop.example.com/password/order/details",
  "https://shop.example.com/thankyou/order/12/cart/" }

Urls == UrlsOfParts(MaxUrlParts) \cup TestSuiteUrls \cup ExcludedOrderUrls

EmptyPage == [url |-> "", title |-> "", bodyText |-> ""]

NoContent == [html |-> "", text |-> ""]

NoValue == [t |-> "undefined", v |-> 0]

NoAnalysis ==
  [isOrderConfirmation |-> NoValue, confidence |-> NoValue, products |-> <<>>,
   retailer |-> NoValue, orderNumber |-> NoValue]

InitUrl ==
  /\ pc = "input"
  /\ url \in Urls
  /\ urlResult = NoResult
  /\ detailsResult = NoResult
  /\ page = EmptyPage
  /\ prevResult = NoResult
  /\ pageResult = NoResult
  /\ edits = 0
  /\ rawHtml = ""
  /\ content = NoContent
  /\ content2 = NoContent
  /\ response = ""
  /\ analysis = NoAnalysis
  /\ ExtensionUnused

ClassifyUrl ==
  /\ urlResult = NoResult
  /\ urlResult' = isLikelyOrderConfirmationUrl(url)
  /\ UNCHANGED <<pc, url, detailsResult, page, prevResult, pageResult, edits,
                 rawHtml, content, content2, response, analysis>>
  /\ UNCHANGED extensionVars

ClassifyDetailsUrl ==
  /\ detailsResult = NoResult
  /\ detailsResult' = isOrderDetailsPage(url)
  /\ UNCHANGED <<pc, url, urlResult, page, prevResult, pageResult, edits,
                 rawHtml, content, content2, response, analysis>>
  /\ UNCHANGED extensionVars

NextUrl == ClassifyUrl \/ ClassifyDetailsUrl

SpecUrl == InitUrl /\ [][NextUrl]_vars

(***************************************************************************)
(* Properties of the URL classifiers                                       *)
(***************************************************************************)
\* the entries of a table whose pattern matches s
Matching(table, s) ==
  LET folded == Fold(s)
  IN  {k \in DOMAIN table : Test(table[k].pattern, folded)}

MaxConfidenceOf(table, S) ==
  IF S = {} THEN 0 ELSE SetMax({table[k].confidence : k \in S})

\* triggers lists the trigger of every entry of S, in table order
ListsInTableOrder(triggers, table, S) ==
  /\ Len(triggers) = Cardinality(S)
  /\ \A k \in S : triggers[Cardinality({j \in S : j <= k})] = table[k].trigger

\* C1: a URL that matches an entry of the exclude table is classified
\* isLikely=false, confidence=0, triggers=[], whatever confirmation patterns
\* it matches as well.
C1_ExclusionWins ==
  (urlResult # NoResult /\ IsExcludedUrl(url)) => urlResult = Result(FALSE, 0, <<>>)

C1_Witness ==
  /\ urlResult # NoResult
  /\ IsExcludedUrl(url)
  /\ Matching(ORDER_CONFIRMATION_PATTERNS, url) # {}

\* C2: for a URL that is not excluded the confidence is the maximum of the
\* confidences of the matching confirmation patterns (0 when none matches),
\* the triggers are those of the matching patterns in table order, and the
\* URL is likely exactly when the confidence is at least 0.6.
C2_MaxNotSum ==
  (urlResult # NoResult /\ ~IsExcludedUrl(url)) =>
    LET S == Matching(ORDER_CONFIRMATION_PATTERNS, url)
    IN  /\ urlResult.confidence = MaxConfidenceOf(ORDER_CONFIRMATION_PATTERNS, S)
        /\ ListsInTableOrder(urlResult.triggers, ORDER_CONFIRMATION_PATTERNS, S)
        /\ urlResult.isLikelyOrderConfirmation <=> (urlResult.confidence >= 60)

C2_Witness ==
  /\ urlResult # NoResult
  /\ ~IsExcludedUrl(url)
  /\ Cardinality(Matching(ORDER_CONFIRMATION_PATTERNS, url)) >= 2
  /\ urlResult.confidence = 90
  /\ urlResult.isLikelyOrderConfirmation

\* C5: the Amazon thank-you URL is classified likely with confidence >= 0.9
\* and its triggers contain 'amazon-thankyou'.
C5_AmazonThankYou ==
  (url = AMAZON_THANKYOU_URL /\ urlResult # NoResult) =>
    /\ urlResult.isLikelyOrderConfirmation
    /\ urlResult.confidence >= 90
    /\ \E k \in DOMAIN urlResult.triggers : urlResult.triggers[k] = "amazon-thankyou"

\* C6 as stated: isOrderDetailsPage never classifies an excluded URL as an
\* order-details page; otherwise the confidence is the maximum over the
\* matching details patterns and the URL is likely exactly from 0.7.
C6_DetailsExclusionWins ==
  (detailsResult # NoResult) =>
    IF IsExcludedUrl(url)
      THEN ~detailsResult.isLikelyOrderConfirmation
      ELSE LET S == Matching(ORDER_DETAILS_PATTERNS, url)
           IN  /\ detailsResult.confidence = MaxConfidenceOf(ORDER_DETAILS_PATTERNS, S)
               /\ detailsResult.isLikelyOrderConfirmation <=> (detailsResult.confidence >= 70)

\* C6 as amended: isOrderDetailsPage does not consult the exclude list; for
\* every URL, excluded or not, the confidence is the maximum over the matching
\* details patterns (0 when none matches), the triggers are theirs in table
\* order, and the URL is likely exactly when the confidence is at least 0.7.
C6_DetailsMaxForEveryUrl ==
  (detailsResult # NoResult) =>
    LET S == Matching(ORDER_DETAILS_PATTERNS, url)
    IN  /\ detailsResult.confidence = MaxConfidenceOf(ORDER_DETAILS_PATTERNS, S)
        /\ ListsInTableOrder(detailsResult.triggers, ORDER_DETAILS_PATTERNS, S)
        /\ detailsResult.isLikelyOrderConfirmation <=> (detailsResult.confidence >= 70)

C6_Witness ==
  /\ detailsResult # NoResult
  /\ IsExcludedUrl(url)
  /\ detailsResult.isLikelyOrderConfirmation
  /\ detailsResult.confidence = 85

(***************************************************************************)
(* Page classifier                                                         *)
(***************************************************************************)
SP == Star(Cls("space"))

TITLE_CONFIRMATION_PATTERNS == <<
  Sig(Cat(<<L("order"), SP, L("confirm")>>), "title-order-confirmation", 80),
  Sig(Cat(<<L("thank"), SP, L("you"), Star(Cls("dot")), L("order")>>), "title-thank-you-order", 80),
  Sig(Cat(<<L("order"), SP, L("placed")>>), "title-order-placed", 85),
  Sig(Cat(<<L("purchase"), SP, L("confirm")>>), "title-purchase-confirm", 80),
  Sig(Cat(<<L("order"), SP, L("complete")>>), "title-order-complete", 85) >>

\* (#|number|no\.?)\s*[:\s]?\s*[\w-]+
NumberTail ==
  Cat(<<Alt(<<L("#"), L("number"), Cat(<<L("no"), Opt(L("."))>>)>>),
        SP, Opt(Cls("colonsp")), SP, Plus(Cls("worddash"))>>)

HasBeen == Opt(Cat(<<L("has"), SP, L("been"), SP>>))

CONTENT_CONFIRMATION_PATTERNS == <<
  Sig(Cat(<<L("order"), SP, NumberTail>>), "content-order-number", 70),
  Sig(Cat(<<L("confirmation"), SP, NumberTail>>), "content-confirmation-number", 70),
  Sig(Cat(<<L("your"), SP, L("order"), SP, HasBeen,
            Alt(<<L("confirmed"), L("placed"), L("received")>>)>>),
      "content-order-confirmed", 75),
  Sig(Cat(<<L("thank"), SP, L("you"), SP, L("for"), SP, Opt(Cat(<<L("your"), SP>>)),
            Alt(<<L("order"), L("purchase")>>)>>),
      "content-thank-you", 65),
  Sig(Cat(<<L("confirmation"), SP, L("email"), SP, HasBeen, L("sent")>>),
      "content-email-sent", 60),
  Sig(Cat(<<L("we"), Alt(<<L("'ve"), Cat(<<Star(Cls("dot")), L("have")>>)>>), SP,
            L("received"), SP, L("your"), SP, L("order")>>),
      "content-order-received", 75) >>

MIXED_THRESHOLD == 40

CONTENT_ONLY_THRESHOLD == 70

CONFIDENCE_CAP == 100

\* for (const {pattern, trigger, confidence} of table) if (pattern.test(s)) {
\*   triggers.push(trigger); totalConfidence += confidence }
\* acc is <<triggers, totalConfidence>>; s is the folded subject
RECURSIVE AddLoop(_, _, _, _)
AddLoop(table, s, k, acc) ==
  IF k > Len(table)
    THEN acc
    ELSE AddLoop(table, s, k + 1,
           IF Test(table[k].pattern, s)
             THEN <<Append(acc[1], table[k].trigger), acc[2] + table[k].confidence>>
             ELSE acc)

\* triggers and total confidence before normalisation
PageSignals(p) ==
  LET urlRes == isLikelyOrderConfirmationUrl(p.url)
      afterUrl == IF urlRes.isLikelyOrderConfirmation
                    THEN <<urlRes.triggers, urlRes.confidence>>
                    ELSE <<<<>>, 0>>
      afterTitle == AddLoop(TITLE_CONFIRMATION_PATTERNS, Fold(p.title), 1, afterUrl)
  IN  AddLoop(CONTENT_CONFIRMATION_PATTERNS, Fold(p.bodyText), 1, afterTitle)

\* triggers.some(t => t.startsWith('url-') || t.startsWith('title-') || t.startsWith('checkout-'))
HasUrlOrTitleSignal(triggers) ==
  \E k \in DOMAIN triggers :
    \/ StartsWith(triggers[k], "url-")
    \/ StartsWith(triggers[k], "title-")
    \/ StartsWith(triggers[k], "checkout-")

\* a page classifier that does not cap the total
PageWithoutCap(p) ==
  LET acc == PageSignals(p)
      threshold == IF HasUrlOrTitleSignal(acc[1]) THEN MIXED_THRESHOLD ELSE CONTENT_ONLY_THRESHOLD
  IN  Result(acc[2] >= threshold /\ Len(acc[1]) > 0, acc[2], acc[1])

\* a page classifier with one threshold for every provenance
PageWithOneThreshold(p) ==
  LET acc == PageSignals(p)
      normalizedConfidence == Min2(acc[2], CONFIDENCE_CAP)
  IN  Result(normalizedConfidence >= MIXED_THRESHOLD /\ Len(acc[1]) > 0,
             normalizedConfidence, acc[1])

\* the result for the triggers acc[1] and the total acc[2] of the signals
ResultOfSignals(acc) ==
  LET normalizedConfidence == Min2(acc[2], CONFIDENCE_CAP)
      threshold == IF HasUrlOrTitleSignal(acc[1]) THEN MIXED_THRESHOLD ELSE CONTENT_ONLY_THRESHOLD
  IN  Result(normalizedConfidence >= threshold /\ Len(acc[1]) > 0,
             normalizedConfidence, acc[1])

isLikelyOrderConfirmationPage(p) == ResultOfSignals(PageSignals(p))

\* result.confidence >= 0.3 || result.triggers.length >= 1
ShouldAnalyze(result) == result.confidence >= 30 \/ Len(result.triggers) >= 1

shouldAnalyzeWithLLM(p) == ShouldAnalyze(isLikelyOrderConfirmationPage(p))

(***************************************************************************)
(* Pages the classifier is exercised on.  A page is loaded with a URL and  *)
(* an empty title and body; text is then added to the title or the body,   *)
(* at most MaxEdits times, and the page is classified again after each     *)
(* change, as the content script does on DOM mutations.                    *)
(***************************************************************************)
MaxEdits == 2

PageUrls == {
  "https://example.com/page",
  "https://example.com/order/receipt",
  "https://example.com/checkout/order-confirmation",
  "https://example.com/login/order-confirmation" }

TitleParts == {"Order Confirmation ", "Thank You ", "Some Page ", "ORDER  PLACED "}

BodyParts == {
  "Order #12345. ",
  "Thank you for your purchase! ",
  "A confirmation email has been sent. ",
  "Your order has been confirmed. ",
  "We have received your order. ",
  "Welcome to our store. " }

InitPage ==
  /\ pc = "input"
  /\ url = ""
  /\ urlResult = NoResult
  /\ detailsResult = NoResult
  /\ page \in {[url |-> u, title |-> "", bodyText |-> ""] : u \in PageUrls}
  /\ prevResult = NoResult
  /\ pageResult = NoResult
  /\ edits = 0
  /\ rawHtml = ""
  /\ content = NoContent
  /\ content2 = NoContent
  /\ response = ""
  /\ analysis = NoAnalysis
  /\ ExtensionUnused

ClassifyPage ==
  /\ pageResult = NoResult
  /\ pageResult' = isLikelyOrderConfirmationPage(page)
  /\ UNCHANGED <<pc, url, urlResult, detailsResult, page, prevResult, edits,
                 rawHtml, content, content2, response, analysis>>
  /\ UNCHANGED extensionVars

\* the page changed to newPage and is classified again
Reclassify(newPage) ==
  /\ pageResult # NoResult
  /\ edits < MaxEdits
  /\ edits' = edits + 1
  /\ page' = newPage
  /\ prevResult' = pageResult
  /\ pageResult' = isLikelyOrderConfirmationPage(newPage)
  /\ UNCHANGED <<pc, url, urlResult, detailsResult,
                 rawHtml, content, content2, response, analysis>>
  /\ UNCHANGED extensionVars

AppendTitle == \E t \in TitleParts : Reclassify([page EXCEPT !.title = @ \o t])

AppendBody == \E b \in BodyParts : Reclassify([page EXCEPT !.bodyText = @ \o b])

NextPage == ClassifyPage \/ AppendTitle \/ AppendBody

SpecPage == InitPage /\ [][NextPage]_vars

(***************************************************************************)
(* Properties of the page classifier                                       *)
(***************************************************************************)
RECURSIVE SumConfidence(_, _)
SumConfidence(table, S) ==
  IF S = {}
    THEN 0
    ELSE LET k == CHOOSE x \in S : TRUE
         IN  table[k].confidence + SumConfidence(table, S \ {k})

\* the URL layer contributes only when the URL is itself likely
UrlLayerFires(p) == isLikelyOrderConfirmationUrl(p.url).isLikelyOrderConfirmation

UrlLayerContribution(p) ==
  IF UrlLayerFires(p) THEN isLikelyOrderConfirmationUrl(p.url).confidence ELSE 0

TitleLayer(p) == Matching(TITLE_CONFIRMATION_PATTERNS, p.title)

ContentLayer(p) == Matching(CONTENT_CONFIRMATION_PATTERNS, p.bodyText)

LayerTotal(p) ==
  UrlLayerContribution(p)
    + SumConfidence(TITLE_CONFIRMATION_PATTERNS, TitleLayer(p))
    + SumConfidence(CONTENT_CONFIRMATION_PATTERNS, ContentLayer(p))

TriggerSet(result) == {result.triggers[k] : k \in DOMAIN result.triggers}

\* C3: the page confidence is the sum of the contributions of the three
\* layers, capped at 1.0, and a page change that keeps every trigger (and
\* may add more) never lowers it.
C3_CappedSumMonotone ==
  (pageResult # NoResult) =>
    /\ pageResult.confidence = Min2(LayerTotal(page), 100)
    /\ pageResult.confidence <= 100
    /\ (prevResult # NoResult /\ TriggerSet(prevResult) \subseteq TriggerSet(pageResult))
         => prevResult.confidence <= pageResult.confidence

C3_Witness ==
  /\ prevResult # NoResult
  /\ prevResult.confidence = 65
  /\ Cardinality(TriggerSet(pageResult)) > Cardinality(TriggerSet(prevResult))
  /\ LayerTotal(page) > 100
  /\ pageResult.confidence = 100

\* C4: a page is likely exactly when a trigger fired and the capped
\* confidence reaches 0.4 if the URL or the title layer fired, 0.7 if only
\* the content layer did.
C4_ProvenanceThreshold ==
  (pageResult # NoResult) =>
    LET fired == UrlLayerFires(page) \/ TitleLayer(page) # {} \/ ContentLayer(page) # {}
        required == IF UrlLayerFires(page) \/ TitleLayer(page) # {} THEN 40 ELSE 70
    IN  pageResult.isLikelyOrderConfirmation <=>
          (fired /\ pageResult.confidence >= required)

\* a single content signal worth 0.65 and nothing else: not likely
C4_Witness ==
  /\ pageResult # NoResult
  /\ ~UrlLayerFires(page)
  /\ TitleLayer(page) = {}
  /\ Cardinality(ContentLayer(page)) = 1
  /\ pageResult.confidence = 65
  /\ ~pageResult.isLikelyOrderConfirmation

(***************************************************************************)
(* Sanitizer: String.prototype.replace with a g-flag pattern               *)
(*                                                                         *)
(* A rule is a pattern, the set of characters a match can begin with, the  *)
(* end the engine settles on among the ends M allows (the shortest for a   *)
(* lazy quantifier, the longest for a greedy one; for the other patterns   *)
(* of extractPageContent M allows one end only) and the replacement.  No   *)
(* pattern of extractPageContent matches the empty string.                 *)
(***************************************************************************)
Rule(kind, re, first, pick, repl) ==
  [kind |-> kind, re |-> re, first |-> first, pick |-> pick, repl |-> repl]

\* the element of a one-element set: Only({F(t) : t \in {x}}) is F(x) with x
\* computed before F is entered, as JavaScript computes a value before it is
\* used, so that the calls of a chain run one after the other
Only(S) == CHOOSE r \in S : TRUE

TagName == Cat(<<Cls("alpha"), Star(Cls("alnum"))>>)

\* what follows group 1 in /<([a-z][a-z0-9]*)[^>]*>\s*<\/\1>/gi when group 1
\* is s[i+1..t-1]
EmptyTagRest(s, i, t) ==
  Cat(<<Star(Cls("notgt")), L(">"), Star(Cls("space")),
        IL("</" \o ToLower(SubSeq(s, i + 1, t - 1)) \o ">")>>)

\* ends[t]: the ends of the match when the tag name ends before position t;
\* the engine tries the longest tag name first
LongestNameFirst(ends) ==
  IF \A t \in DOMAIN ends : ends[t] = {}
    THEN {}
    ELSE ends[SetMax({t \in DOMAIN ends : ends[t] # {}})]

\* /<([a-z][a-z0-9]*)[^>]*>\s*<\/\1>/gi at position i
EmptyTagEnds(s, i) ==
  IF At(s, i) # "<"
    THEN {}
    ELSE LongestNameFirst(
           [t \in M(TagName, s, i + 1) |-> M(EmptyTagRest(s, i, t), s, t)])

MatchEnds(rule, s, i) ==
  IF rule.kind = "emptytag" THEN EmptyTagEnds(s, i) ELSE M(rule.re, s, i)

\* the matches <<start, end>> of a pattern anywhere in s
SpansOf(re, s) == UNION {{<<i, e>> : e \in M(re, s, i)} : i \in 1..Len(s)}

\* the same for a rule; a match begins with a character of rule.first
Spans(rule, s) ==
  UNION {{<<i, e>> : e \in MatchEnds(rule, s, i)} :
           i \in {j \in 1..Len(s) : At(s, j) \in rule.first}}

HasMatch(spans, from) == \E m \in spans : m[1] >= from

Before(m, n, pick) ==
  \/ m[1] < n[1]
  \/ m[1] = n[1] /\ (IF pick = "shortest" THEN m[2] <= n[2] ELSE m[2] >= n[2])

\* the match the engine finds when it searches from position `from`: the
\* leftmost start, and there the end a lazy or a greedy quantifier settles on
Leftmost(spans, from, pick) ==
  CHOOSE m \in spans :
    m[1] >= from /\ \A n \in spans : n[1] >= from => Before(m, n, pick)

\* attrs.match(new RegExp(name + '\\s*=\\s*["\']([^"\']*)["\']', 'i')): the
\* captured value of the leftmost match, <<>> when there is none
AttrOpen(name) ==
  Cat(<<IL(name), Star(Cls("space")), L("="), Star(Cls("space")), Cls("quote")>>)

AttrFull(name) == Cat(<<AttrOpen(name), Star(Cls("notquote")), Cls("quote")>>)

AttrCapture(attrs, name, m) ==
  SubSeq(attrs, SetMax(M(AttrOpen(name), attrs, m[1])), m[2] - 2)

AttrMatch(attrs, name, spans) ==
  IF spans = {}
    THEN <<>>
    ELSE <<AttrCapture(attrs, name, Leftmost(spans, 1, "longest"))>>

AttrValue(attrs, name) == AttrMatch(attrs, name, SpansOf(AttrFull(name), attrs))

\* keepAttrs.push(`${name}="${value}"`) when the attribute is present
KeptAs(name, v) ==
  IF v = <<>> THEN <<>> ELSE <<name \o "=\"" \o v[1] \o "\"">>

Kept(attrs, name) == KeptAs(name, AttrValue(attrs, name))

RECURSIVE KeptEach(_, _, _)
KeptEach(attrs, names, k) ==
  IF k > Len(names)
    THEN <<>>
    ELSE Kept(attrs, names[k]) \o KeptEach(attrs, names, k + 1)

\* attrs.match(/data-[a-z0-9-]+\s*=\s*["'][^"']*["']/gi) || []
DataAttr ==
  Cat(<<IL("data-"), Plus(Cls("alnumdash")), Star(Cls("space")), L("="),
        Star(Cls("space")), Cls("quote"), Star(Cls("notquote")), Cls("quote")>>)

\* String.prototype.match with a g-flag pattern: the matched texts in order
RECURSIVE MatchAll(_, _, _)
MatchAll(s, spans, from) ==
  IF ~HasMatch(spans, from)
    THEN <<>>
    ELSE LET Found(m) == <<SubSeq(s, m[1], m[2] - 1)>> \o MatchAll(s, spans, m[2])
         IN  Only({Found(m) : m \in {Leftmost(spans, from, "longest")}})

DataMatches(attrs) == MatchAll(attrs, SpansOf(DataAttr, attrs), 1)

SEMANTIC_ATTRS ==
  <<"role", "aria-label", "aria-labelledby", "aria-describedby",
    "itemprop", "itemscope", "itemtype">>

\* href on anchor tags, src and alt on img tags
TagAttrs(tag) ==
  IF ToLower(tag) = "a" THEN <<"href">>
  ELSE IF ToLower(tag) = "img" THEN <<"src", "alt">>
  ELSE <<>>

RECURSIVE Join(_, _)
Join(strs, sep) ==
  IF Len(strs) = 0 THEN ""
  ELSE IF Len(strs) = 1 THEN strs[1]
  ELSE strs[1] \o sep \o Join(Tail(strs), sep)

\* keepAttrs of the replacer callback for the tag name `tag` and the
\* attribute text `attrs`
KeepAttrs(tag, attrs) ==
  KeptEach(attrs, <<"class", "id">>, 1) \o DataMatches(attrs)
    \o KeptEach(attrs, SEMANTIC_ATTRS \o TagAttrs(tag), 1)

Rebuilt(tag, keepAttrs) ==
  IF Len(keepAttrs) > 0
    THEN "<" \o tag \o " " \o Join(keepAttrs, " ") \o ">"
    ELSE "<" \o tag \o ">"

\* the replacer callback (_match, tag, attrs) => ...
SimplifyAttributes(tag, attrs) == Rebuilt(tag, KeepAttrs(tag, attrs))

\* the callback applied to the groups of /<([a-z][a-z0-9]*)\s+([^>]*)>/gi for
\* the match s[i..e-1] whose tag name ends before nameEnd
SimplifyNamed(s, i, nameEnd, e) ==
  SimplifyAttributes(
    SubSeq(s, i + 1, nameEnd - 1),
    SubSeq(s, SetMax(M(Plus(Cls("space")), s, nameEnd)), e - 2))

SimplifyTag(s, i, e) == SimplifyNamed(s, i, SetMax(M(TagName, s, i + 1)), e)

Replacement(rule, s, i, e) ==
  IF rule.kind = "attrs" THEN SimplifyTag(s, i, e) ELSE rule.repl

\* spans: the matches of the rule in s; the text from `from` on is still to
\* be copied and searched
RECURSIVE ReplaceScan(_, _, _, _)
ReplaceScan(s, rule, spans, from) ==
  IF ~HasMatch(spans, from)
    THEN SubSeq(s, from, Len(s))
    ELSE LET Replaced(m) ==
               SubSeq(s, from, m[1] - 1) \o Replacement(rule, s, m[1], m[2])
                 \o ReplaceScan(s, rule, spans, m[2])
         IN  Only({Replaced(m) : m \in {Leftmost(spans, from, rule.pick)}})

\* String.prototype.replace with a g-flag pattern
ReplaceAll(s, rule) == ReplaceScan(s, rule, Spans(rule, s), 1)

\* s.replace(rules[lo]).replace(rules[lo + 1]) ... .replace(rules[hi]): the
\* first half of the chain, then the second half on its result
RECURSIVE ReplaceEach(_, _, _, _)
ReplaceEach(s, rules, lo, hi) ==
  IF lo > hi THEN s
  ELSE IF lo = hi THEN ReplaceAll(s, rules[lo])
  ELSE LET Rest(t) == ReplaceEach(t, rules, (lo + hi) \div 2 + 1, hi)
       IN  Only({Rest(t) : t \in {ReplaceEach(s, rules, lo, (lo + hi) \div 2)}})

ReplaceWith(s, rules) == ReplaceEach(s, rules, 1, Len(rules))

RECURSIVE TrimStart(_)
TrimStart(s) == IF Len(s) > 0 /\ Head(s) \in SpaceSet THEN TrimStart(Tail(s)) ELSE s

RECURSIVE TrimEnd(_)
TrimEnd(s) ==
  IF Len(s) > 0 /\ At(s, Len(s)) \in SpaceSet
    THEN TrimEnd(SubSeq(s, 1, Len(s) - 1))
    ELSE s

\* String.prototype.trim
Trim(s) == TrimEnd(TrimStart(s))

(***************************************************************************)
(* Sanitizer: the patterns of extractPageContent                           *)
(***************************************************************************)
\* /<name\b[^<]*(?:(?!<\/name>)<[^<]*)*<\/name>/gi
BlockElement(name) ==
  Cat(<<IL("<" \o name), WordBoundary, Star(Cls("notlt")),
        Star(Cat(<<NotAhead(IL("</" \o name \o ">")), L("<"), Star(Cls("notlt"))>>)),
        IL("</" \o name \o ">")>>)

\* /<name\b[^>]*>/gi
VoidElement(name) ==
  Cat(<<IL("<" \o name), WordBoundary, Star(Cls("notgt")), L(">")>>)

\* /<!--[\s\S]*?-->/g
HtmlComment == Cat(<<L("<!--"), Star(Cls("any")), L("-->")>>)

\* /<(header|footer|nav|aside)\b[^>]*class="[^"]*(?:main|site|global)[^"]*"[^>]*>[\s\S]*?<\/\1>/gi
NoiseBlock(name) ==
  Cat(<<IL("<" \o name), WordBoundary, Star(Cls("notgt")), IL("class=\""),
        Star(Cls("notdq")), Alt(<<IL("main"), IL("site"), IL("global")>>),
        Star(Cls("notdq")), L("\""), Star(Cls("notgt")), L(">"),
        Star(Cls("any")), IL("</" \o name \o ">")>>)

NoiseBlocks ==
  Alt(<<NoiseBlock("header"), NoiseBlock("footer"), NoiseBlock("nav"), NoiseBlock("aside")>>)

\* /<([a-z][a-z0-9]*)\s+([^>]*)>/gi
TagWithAttributes ==
  Cat(<<L("<"), TagName, Plus(Cls("space")), Star(Cls("notgt")), L(">")>>)

\* /<[^>]+>/g
AnyTag == Cat(<<L("<"), Plus(Cls("notgt")), L(">")>>)

Remove(re) == Rule("const", re, {"<"}, "shortest", "")

Literal(from, to) == Rule("const", L(from), {At(from, 1)}, "shortest", to)

STRIP_RULES == <<
  Remove(BlockElement("script")),
  Remove(BlockElement("style")),
  Remove(BlockElement("noscript")),
  Remove(BlockElement("svg")),
  Remove(VoidElement("link")),
  Remove(VoidElement("meta")),
  Remove(HtmlComment),
  Remove(NoiseBlocks),
  Rule("attrs", TagWithAttributes, {"<"}, "longest", "") >>

ENTITY_RULES == <<
  Literal("&nbsp;", " "),
  Literal("&amp;", "&"),
  Literal("&lt;", "<"),
  Literal("&gt;", ">"),
  Literal("&quot;", "\""),
  Literal("&#39;", "'") >>

\* /\s+/g -> ' '
CollapseSpace == Rule("const", Plus(Cls("space")), SpaceSet, "longest", " ")

TEXT_RULES == <<Rule("const", AnyTag, {"<"}, "shortest", " "), CollapseSpace>>

HTML_RULES == <<
  Rule("emptytag", <<>>, {"<"}, "longest", ""),
  CollapseSpace,
  Rule("const", Cat(<<L(">"), Plus(Cls("space")), L("<")>>), {">"}, "longest", "><"),
  Rule("const", Cat(<<L(">"), Plus(Cls("space"))>>), {">"}, "longest", "> "),
  Rule("const", Cat(<<Plus(Cls("space")), L("<")>>), SpaceSet, "longest", " <") >>

MAX_HTML_LENGTH == 60000

MAX_TEXT_LENGTH == 30000

TRUNCATION_MARKER == "...[truncated]"

\* if (s.length > max) s = s.substring(0, max) + '...[truncated]'
Truncate(s, max) ==
  IF Len(s) > max THEN SubSeq(s, 1, max) \o TRUNCATION_MARKER ELSE s

extractPageContent(html) ==
  LET Outputs(decoded) ==
        [html |-> Truncate(Trim(ReplaceWith(decoded, HTML_RULES)), MAX_HTML_LENGTH),
         text |-> Truncate(Trim(ReplaceWith(decoded, TEXT_RULES)), MAX_TEXT_LENGTH)]
      Decoded(stripped) ==
        Only({Outputs(t) : t \in {ReplaceWith(stripped, ENTITY_RULES)}})
  IN  Only({Decoded(t) : t \in {ReplaceWith(html, STRIP_RULES)}})

(***************************************************************************)
(* Documents the sanitizer is exercised on: at most MaxHtmlParts pieces of *)
(* markup put together, and the 100,000-character body of the test suite.  *)
(* The sanitizer is then applied once more to the html it returned.        *)
(***************************************************************************)
MaxHtmlParts == 2

HtmlParts == {
  "<script>alert(1)</script>",
  "&lt;script&gt;alert(1)&lt;/script&gt;",
  "&amp;lt;b&amp;gt;",
  "<p>Order #12345</p>",
  "<div class=\"item\" style=\"color:red\" data-id='7'>Widget</div>",
  "<!-- note -->",
  "<META charset=\"utf-8\">",
  "<nav class=\"site-nav\">Menu</nav>",
  "<div><span></span></div>",
  " \n\t ",
  "<a href=\"/p\" onclick=\"x()\">Buy&nbsp;now</a>",
  "<style>.a{}</style>",
  "<img src=\"a.png\" alt=\"A\" width=\"1\">",
  "<svg><path d=\"M0\"/></svg>",
  "<link rel=\"x\">",
  "Total: $19.99" }

RECURSIVE DocumentsOfParts(_)
DocumentsOfParts(n) ==
  IF n = 0
    THEN {""}
    ELSE LET shorter == DocumentsOfParts(n - 1)
         IN  shorter \cup {d \o p : d \in shorter, p \in HtmlParts}

LONG_BODY_LENGTH == 100000

\* 'x'.repeat(n)
RECURSIVE RepeatX(_)
RepeatX(n) ==
  IF n = 0
    THEN ""
    ELSE LET half == RepeatX(n \div 2)
         IN  IF n % 2 = 0 THEN half \o half ELSE half \o half \o "x"

LongDocument == "<html><body>" \o RepeatX(LONG_BODY_LENGTH) \o "</body></html>"

Documents == DocumentsOfParts(MaxHtmlParts) \cup {LongDocument}

InitSanitize ==
  /\ pc = "input"
  /\ url = ""
  /\ urlResult = NoResult
  /\ detailsResult = NoResult
  /\ page = EmptyPage
  /\ prevResult = NoResult
  /\ pageResult = NoResult
  /\ edits = 0
  /\ rawHtml \in Documents
  /\ content = NoContent
  /\ content2 = NoContent
  /\ response = ""
  /\ analysis = NoAnalysis
  /\ ExtensionUnused

Sanitize ==
  /\ pc = "input"
  /\ content' = extractPageContent(rawHtml)
  /\ pc' = "sanitized"
  /\ UNCHANGED <<url, urlResult, detailsResult, page, prevResult, pageResult,
                 edits, rawHtml, content2, response, analysis>>
  /\ UNCHANGED extensionVars

SanitizeAgain ==
  /\ pc = "sanitized"
  /\ content2' = extractPageContent(content.html)
  /\ pc' = "resanitized"
  /\ UNCHANGED <<url, urlResult, detailsResult, page, prevResult, pageResult,
                 edits, rawHtml, content, response, analysis>>
  /\ UNCHANGED extensionVars

NextSanitize == Sanitize \/ SanitizeAgain

SpecSanitize == InitSanitize /\ [][NextSanitize]_vars

(***************************************************************************)
(* Sanitizer: length limits and idempotence                                *)
(***************************************************************************)
\* the cut of s at max as the limit describes it: the first max characters
\* followed by the truncation marker
CutAt(s, max) == SubSeq(s, 1, max) \o TRUNCATION_MARKER

\* C7: for every input HTML string the html projection is at most 60,010
\* characters long and the text projection at most 30,010, and a projection
\* that was cut is its first 60,000 (30,000) characters followed by the
\* truncation marker.
C7_LengthLimits ==
  pc = "sanitized" =>
    /\ Len(content.html) <= 60010
    /\ Len(content.text) <= 30010
    /\ Len(content.html) > MAX_HTML_LENGTH =>
         content.html = CutAt(content.html, MAX_HTML_LENGTH)
    /\ Len(content.text) > MAX_TEXT_LENGTH =>
         content.text = CutAt(content.text, MAX_TEXT_LENGTH)

\* the rules that remove script, style, noscript, svg, link and meta tags
\* and HTML comments
REMOVED_MARKUP == SubSeq(STRIP_RULES, 1, 7)

HasMarkupToRemove(s) ==
  \E k \in DOMAIN REMOVED_MARKUP : ReplaceAll(s, REMOVED_MARKUP[k]) # s

\* C8: sanitizing the html the sanitizer produced changes nothing except
\* possible further truncation, and the html it produced holds no script,
\* style, noscript, svg, link or meta tag or HTML comment left to remove,
\* also for entity-encoded and doubly encoded markup in the input.
C8_Idempotent ==
  pc = "resanitized" =>
    /\ \/ content2.html = content.html
       \/ /\ Len(content.html) > MAX_HTML_LENGTH
          /\ content2.html = CutAt(content.html, MAX_HTML_LENGTH)
    /\ ~HasMarkupToRemove(content.html)

(***************************************************************************)
(* LLM response parser: JavaScript values                                  *)
(*                                                                         *)
(* A value is a record of its kind t and its content v.  A number is the   *)
(* pair <<m, e>> that stands for m / 10^e; an object is the sequence of    *)
(* its <<key, value>> members in source order.                             *)
(***************************************************************************)
Undefined == [t |-> "undefined", v |-> 0]

Null == [t |-> "null", v |-> 0]

Bool(b) == [t |-> "boolean", v |-> b]

Num(m, e) == [t |-> "number", v |-> <<m, e>>]

Str(s) == [t |-> "string", v |-> s]

Arr(elems) == [t |-> "array", v |-> elems]

Obj(members) == [t |-> "object", v |-> members]

\* typeof x
TypeOf(x) == IF x.t \in {"null", "array", "object"} THEN "object" ELSE x.t

IsNullish(x) == x.t \in {"undefined", "null"}

\* ToBoolean(x) is false
IsFalsy(x) ==
  \/ IsNullish(x)
  \/ x.t = "boolean" /\ ~x.v
  \/ x.t = "number" /\ x.v[1] = 0
  \/ x.t = "string" /\ x.v = ""

\* x ?? d
Coalesce(x, d) == IF IsNullish(x) THEN d ELSE x

\* x || d
OrElse(x, d) == IF IsFalsy(x) THEN d ELSE x

\* typeof x === type ? x : d
IfType(x, type, d) == IF TypeOf(x) = type THEN x ELSE d

\* x.key for x that is not null or undefined: the last member of that name
\* of an object, undefined on an object without it and on any other value
Get(x, key) ==
  IF x.t = "object" /\ \E k \in DOMAIN x.v : x.v[k][1] = key
    THEN x.v[SetMax({k \in DOMAIN x.v : x.v[k][1] = key})][2]
    ELSE Undefined

RECURSIVE Exp10(_)
Exp10(n) == IF n = 0 THEN 1 ELSE 10 * Exp10(n - 1)

IsPositive(x) == x.v[1] > 0

\* x < n for a number x and an integer n
IsBelow(x, n) ==
  IF x.v[2] >= 0
    THEN x.v[1] < n * Exp10(x.v[2])
    ELSE x.v[1] * Exp10(-x.v[2]) < n

(***************************************************************************)
(* LLM response parser: JSON.parse                                         *)
(*                                                                         *)
(* A parse step returns the value read and the position after it, or       *)
(* SyntaxError.  \u escapes are not read.                                  *)
(***************************************************************************)
Parsed(val, next) == [ok |-> TRUE, val |-> val, next |-> next]

SyntaxError == [ok |-> FALSE, val |-> Undefined, next |-> 0]

CharAt(s, i) == IF i >= 1 /\ i <= Len(s) THEN At(s, i) ELSE ""

SkipSpace(s, i) == FirstStop("jsonws", s, i, Len(s))

DigitValue(c) == CHOOSE d \in 0..9 : At("0123456789", d + 1) = c

RECURSIVE DigitsValue(_)
DigitsValue(ds) ==
  IF Len(ds) = 0
    THEN 0
    ELSE 10 * DigitsValue(SubSeq(ds, 1, Len(ds) - 1)) + DigitValue(At(ds, Len(ds)))

\* the end of the integer part that begins at a: a single 0 or a run of digits
IntEnd(s, a) ==
  IF CharAt(s, a) = "0" THEN a + 1 ELSE FirstStop("digit", s, a, Len(s))

\* the end of the fraction that begins at b, b itself without a fraction
FracEnd(s, b) ==
  IF CharAt(s, b) = "." THEN FirstStop("digit", s, b + 1, Len(s)) ELSE b

\* the first digit of an exponent whose e is at c
ExpStart(s, c) == IF CharAt(s, c + 1) \in {"+", "-"} THEN c + 2 ELSE c + 1

Mantissa(s, neg, a, b, c) ==
  (IF neg THEN -1 ELSE 1)
    * DigitsValue(SubSeq(s, a, b - 1) \o (IF c > b THEN SubSeq(s, b + 1, c - 1) ELSE ""))

FracLen(b, c) == IF c > b THEN c - b - 1 ELSE 0

NumberWithExp(s, neg, a, b, c, d, f) ==
  IF f = d
    THEN SyntaxError
    ELSE Parsed(Num(Mantissa(s, neg, a, b, c),
                    FracLen(b, c)
                      - (IF CharAt(s, c + 1) = "-" THEN -1 ELSE 1)
                          * DigitsValue(SubSeq(s, d, f - 1))),
                f)

NumberAfterFrac(s, neg, a, b, c) ==
  IF CharAt(s, b) = "." /\ c = b + 1 THEN SyntaxError
  ELSE IF CharAt(s, c) \in {"e", "E"}
    THEN NumberWithExp(s, neg, a, b, c, ExpStart(s, c),
                       FirstStop("digit", s, ExpStart(s, c), Len(s)))
    ELSE Parsed(Num(Mantissa(s, neg, a, b, c), FracLen(b, c)), c)

NumberAfterInt(s, neg, a, b) ==
  IF b = a THEN SyntaxError ELSE NumberAfterFrac(s, neg, a, b, FracEnd(s, b))

NumberAfterSign(s, neg, a) == NumberAfterInt(s, neg, a, IntEnd(s, a))

ParseNumber(s, i) ==
  NumberAfterSign(s, CharAt(s, i) = "-", IF CharAt(s, i) = "-" THEN i + 1 ELSE i)

ESCAPES ==
  [c \in {"\"", "\\", "/", "n", "t", "r", "f"} |->
     CASE c = "n" -> "\n" [] c = "t" -> "\t" [] c = "r" -> "\r" [] c = "f" -> "\f"
       [] OTHER -> c]

\* the string whose text so far is acc and goes on at j; k is the first
\* position from j on that holds a quote, a backslash or a control character
RECURSIVE StringFrom(_, _, _)
StringAt(s, acc, j, k) ==
  IF CharAt(s, k) = "\""
    THEN Parsed(Str(acc \o SubSeq(s, j, k - 1)), k + 1)
  ELSE IF CharAt(s, k) = "\\" /\ CharAt(s, k + 1) \in DOMAIN ESCAPES
    THEN StringFrom(s, k + 2, acc \o SubSeq(s, j, k - 1) \o ESCAPES[CharAt(s, k + 1)])
  ELSE SyntaxError

StringFrom(s, j, acc) == StringAt(s, acc, j, FirstStop("strchar", s, j, Len(s)))

RECURSIVE ParseValue(_, _), ParseMembers(_, _, _), ParseElements(_, _, _)
MemberEnd(s, acc, e) ==
  IF CharAt(s, e) = "," THEN ParseMembers(s, SkipSpace(s, e + 1), acc)
  ELSE IF CharAt(s, e) = "}" THEN Parsed(Obj(acc), e + 1)
  ELSE SyntaxError

MemberAfterValue(s, acc, key, val) ==
  IF ~val.ok
    THEN SyntaxError
    ELSE MemberEnd(s, Append(acc, <<key, val.val>>), SkipSpace(s, val.next))

MemberAfterColon(s, acc, key, c) ==
  IF CharAt(s, c) # ":"
    THEN SyntaxError
    ELSE MemberAfterValue(s, acc, key, ParseValue(s, c + 1))

MemberAfterKey(s, acc, key) ==
  IF ~key.ok
    THEN SyntaxError
    ELSE MemberAfterColon(s, acc, key.val.v, SkipSpace(s, key.next))

\* the members of an object from position j on, acc being those read so far
ParseMembers(s, j, acc) ==
  IF CharAt(s, j) # "\""
    THEN SyntaxError
    ELSE MemberAfterKey(s, acc, StringFrom(s, j + 1, ""))

ElementEnd(s, acc, e) ==
  IF CharAt(s, e) = "," THEN ParseElements(s, e + 1, acc)
  ELSE IF CharAt(s, e) = "]" THEN Parsed(Arr(acc), e + 1)
  ELSE SyntaxError

ElementAfterValue(s, acc, val) ==
  IF ~val.ok
    THEN SyntaxError
    ELSE ElementEnd(s, Append(acc, val.val), SkipSpace(s, val.next))

\* the elements of an array from position j on, acc being those read so far
ParseElements(s, j, acc) == ElementAfterValue(s, acc, ParseValue(s, j))

ObjectFrom(s, j) ==
  IF CharAt(s, j) = "}" THEN Parsed(Obj(<<>>), j + 1) ELSE ParseMembers(s, j, <<>>)

ArrayFrom(s, j) ==
  IF CharAt(s, j) = "]" THEN Parsed(Arr(<<>>), j + 1) ELSE ParseElements(s, j, <<>>)

ValueAt(s, i) ==
  IF CharAt(s, i) = "{" THEN ObjectFrom(s, SkipSpace(s, i + 1))
  ELSE IF CharAt(s, i) = "[" THEN ArrayFrom(s, SkipSpace(s, i + 1))
  ELSE IF CharAt(s, i) = "\"" THEN StringFrom(s, i + 1, "")
  ELSE IF CharAt(s, i) \in DigitSet \cup {"-"} THEN ParseNumber(s, i)
  ELSE IF StartsAt(s, i, "true") THEN Parsed(Bool(TRUE), i + 4)
  ELSE IF StartsAt(s, i, "false") THEN Parsed(Bool(FALSE), i + 5)
  ELSE IF StartsAt(s, i, "null") THEN Parsed(Null, i + 4)
  ELSE SyntaxError

ParseValue(s, i) == ValueAt(s, SkipSpace(s, i))

\* a value followed by nothing but white space
WholeText(text, r) ==
  IF r.ok /\ SkipSpace(text, r.next) = Len(text) + 1 THEN r ELSE SyntaxError

JSONParse(text) == WholeText(text, ParseValue(text, 1))

(***************************************************************************)
(* LLM response parser: parseOrderAnalysis                                 *)
(***************************************************************************)
DEFAULT_RESULT ==
  [isOrderConfirmation |-> Bool(FALSE), confidence |-> Num(0, 0), products |-> <<>>,
   retailer |-> Null, orderNumber |-> Null]

\* the three backquotes that open and close a code block (the text of the
\* string literal ends with a quote mark, which is cut off)
FENCE == SubSeq("```'", 1, 3)

\* the part of the code block pattern before its capture group: FENCE,
\* (?:json)? and \s*
CODE_BLOCK_OPEN == Cat(<<L(FENCE), Opt(L("json")), Star(Cls("space"))>>)

\* the code block pattern: FENCE (?:json)? \s* ([\s\S]*?) FENCE
CODE_BLOCK == Cat(<<CODE_BLOCK_OPEN, Star(Cls("any")), L(FENCE)>>)

\* /\{[\s\S]*\}/
BRACES == Cat(<<L("{"), Star(Cls("any")), L("}")>>)

\* codeBlockMatch[1] for the match m
CodeBlockCapture(s, m) ==
  SubSeq(s, SetMax(M(CODE_BLOCK_OPEN, s, m[1])), m[2] - 4)

\* jsonStr: the trimmed content of the first code block, the response itself
\* when it has none
JsonStr(text, blocks) ==
  IF blocks = {}
    THEN text
    ELSE Trim(CodeBlockCapture(text, Leftmost(blocks, 1, "shortest")))

MatchText(s, m) == SubSeq(s, m[1], m[2] - 1)

\* the callback of parsed.products.map
NormalizeProduct(p) ==
  [name |-> OrElse(Get(p, "name"), Str("Unknown Product")),
   price |-> IfType(Get(p, "price"), "number", Null),
   quantity |-> IfType(Get(p, "quantity"), "number", Num(1, 0)),
   isRecurring |-> IfType(Get(p, "isRecurring"), "boolean", Bool(FALSE)),
   category |-> OrElse(Get(p, "category"), Null),
   suggestedFrequencyDays |-> IfType(Get(p, "suggestedFrequencyDays"), "number", Null)]

\* Array.isArray(products) ? products.map(...) : []
NormalizeProducts(products) ==
  IF products.t = "array"
    THEN [k \in DOMAIN products.v |-> NormalizeProduct(products.v[k])]
    ELSE <<>>

\* p.name of a null entry of products throws a TypeError
MapThrows(products) ==
  products.t = "array" /\ \E k \in DOMAIN products.v : IsNullish(products.v[k])

Normalized(parsed) ==
  [isOrderConfirmation |-> Coalesce(Get(parsed, "isOrderConfirmation"), Bool(FALSE)),
   confidence |-> Coalesce(Get(parsed, "confidence"), Num(0, 0)),
   products |-> NormalizeProducts(Get(parsed, "products")),
   retailer |-> OrElse(Get(parsed, "retailer"), Null),
   orderNumber |-> OrElse(Get(parsed, "orderNumber"), Null)]

\* the try block from JSON.parse on; the catch block returns defaultResult
Analysed(r) ==
  IF ~r.ok \/ MapThrows(Get(r.val, "products"))
    THEN DEFAULT_RESULT
    ELSE Normalized(r.val)

AnalysedMatch(jsonStr, spans) ==
  IF spans = {}
    THEN DEFAULT_RESULT
    ELSE Analysed(JSONParse(MatchText(jsonStr, Leftmost(spans, 1, "longest"))))

AnalysedText(jsonStr) == AnalysedMatch(jsonStr, SpansOf(BRACES, jsonStr))

parseOrderAnalysis(text) == AnalysedText(JsonStr(text, SpansOf(CODE_BLOCK, text)))

(***************************************************************************)
(* Responses the parser is exercised on: a JSON object in which one member *)
(* at a time is missing or of another type, with at most MaxProducts       *)
(* product entries that vary in the same way, bare or wrapped in a code    *)
(* block or in prose, and texts that hold no JSON object.                  *)
(***************************************************************************)
MaxProducts == 2

Member(key, text) == "\"" \o key \o "\":" \o text

\* the members that are present (their text is not empty), as JSON
RECURSIVE MemberTexts(_, _)
MemberTexts(members, k) ==
  IF k > Len(members) THEN <<>>
  ELSE IF members[k][2] = "" THEN MemberTexts(members, k + 1)
  ELSE <<Member(members[k][1], members[k][2])>> \o MemberTexts(members, k + 1)

ObjectText(members) == "{" \o Join(MemberTexts(members, 1), ",") \o "}"

ArrayText(elems) == "[" \o Join(elems, ", ") \o "]"

\* the object and those that differ from it in one member
Varied(base, alternatives) ==
  {base} \cup UNION {{[base EXCEPT ![k][2] = t] : t \in alternatives[k]} :
                       k \in DOMAIN base}

BASE_PRODUCT == <<
  <<"name", "\"Coffee Beans 1kg\"">>, <<"price", "19.99">>, <<"quantity", "2">>,
  <<"isRecurring", "true">>, <<"category", "\"grocery\"">>,
  <<"suggestedFrequencyDays", "30">> >>

PRODUCT_ALTERNATIVES == <<
  {"", "\"\"", "123"},
  {"", "0", "-5", "10000", "\"19.99\"", "null"},
  {"", "\"2\""},
  {"", "\"true\""},
  {"", "5"},
  {"", "\"30\""} >>

ProductEntries ==
  {ObjectText(p) : p \in Varied(BASE_PRODUCT, PRODUCT_ALTERNATIVES)}
    \cup {"null", "7"}

RECURSIVE ProductLists(_)
ProductLists(n) ==
  IF n = 0
    THEN {<<>>}
    ELSE LET shorter == ProductLists(n - 1)
         IN  shorter \cup {Append(l, e) : l \in shorter, e \in ProductEntries}

BASE_ANALYSIS == <<
  <<"isOrderConfirmation", "true">>, <<"confidence", "0.95">>,
  <<"products", ArrayText(<<ObjectText(BASE_PRODUCT)>>)>>,
  <<"retailer", "\"Amazon\"">>, <<"orderNumber", "\"112-7\"">> >>

ANALYSIS_ALTERNATIVES == <<
  {"", "\"yes\"", "null", "false"},
  {"", "\"high\"", "1e2", "-0.5"},
  {ArrayText(l) : l \in ProductLists(MaxProducts)} \cup {"", "\"none\"", "{}"},
  {"", "\"\"", "42"},
  {"", "0", "[\"a \\\"b\\\"\"]"} >>

ObjectResponses == {ObjectText(a) : a \in Varied(BASE_ANALYSIS, ANALYSIS_ALTERNATIVES)}

WrappedResponses ==
  {w[1] \o ObjectText(BASE_ANALYSIS) \o w[2] :
     w \in { <<FENCE \o "json\n", "\n" \o FENCE>>, <<FENCE \o "\n", FENCE>>,
             <<FENCE \o "json", " " \o FENCE \o " " \o FENCE>>,
             <<"Here is the analysis: ", " Let me know!">>, <<" \n", " }">>,
             <<"{\"note\": 1} ", "">> }}

MalformedResponses ==
  { "", "I could not find an order on this page.", "{", "}{", "{}", FENCE \o " " \o FENCE,
    "{\"isOrderConfirmation\": tru}", "{'confidence': 1}", "[1, 2]",
    "{\"confidence\": 01}", "{\"products\": [1,]}", "{\"retailer\": \"A\nB\"}" }

Responses == ObjectResponses \cup WrappedResponses \cup MalformedResponses

InitParse ==
  /\ pc = "input"
  /\ url = ""
  /\ urlResult = NoResult
  /\ detailsResult = NoResult
  /\ page = EmptyPage
  /\ prevResult = NoResult
  /\ pageResult = NoResult
  /\ edits = 0
  /\ rawHtml = ""
  /\ content = NoContent
  /\ content2 = NoContent
  /\ response \in Responses
  /\ analysis = NoAnalysis
  /\ ExtensionUnused

Parse ==
  /\ pc = "input"
  /\ analysis' = parseOrderAnalysis(response)
  /\ pc' = "parsed"
  /\ UNCHANGED <<url, urlResult, detailsResult, page, prevResult, pageResult,
                 edits, rawHtml, content, content2, response>>
  /\ UNCHANGED extensionVars

NextParse == Parse

SpecParse == InitParse /\ [][NextParse]_vars

(***************************************************************************)
(* LLM response parser: shape of the result                                *)
(***************************************************************************)
WellFormedProduct(p) ==
  /\ p.name.t = "string" /\ p.name.v # ""
  /\ p.price.t \in {"number", "null"}
  /\ p.quantity.t = "number"
  /\ p.isRecurring.t = "boolean"
  /\ p.category.t \in {"string", "null"}
  /\ p.suggestedFrequencyDays.t \in {"number", "null"}

\* C9: parseOrderAnalysis never throws and always returns a well-formed
\* OrderAnalysis: isOrderConfirmation is a boolean, confidence a number, and
\* every product has a non-empty string name, a price that is a number or
\* null, a numeric quantity, a boolean isRecurring, and a category and
\* suggestedFrequencyDays of their declared type or null, every missing or
\* wrongly typed member taking its default.
C9_WellFormed ==
  pc = "parsed" =>
    /\ analysis.isOrderConfirmation.t = "boolean"
    /\ analysis.confidence.t = "number"
    /\ \A k \in DOMAIN analysis.products : WellFormedProduct(analysis.products[k])

\* C10: every product the parser emits has price null or 0 < price < 10000,
\* whatever numeric price the JSON carried.
C10_PriceInRange ==
  pc = "parsed" =>
    \A k \in DOMAIN analysis.products :
      \/ analysis.products[k].price.t = "null"
      \/ /\ analysis.products[k].price.t = "number"
         /\ IsPositive(analysis.products[k].price)
         /\ IsBelow(analysis.products[k].price, 10000)

(***************************************************************************)
(* Text-only heuristic: analyzeOrderWithHeuristics (lib/llm.ts)            *)
(***************************************************************************)
confirmationSignals == <<
  "order confirmation", "thank you for your order", "order has been received",
  "order number", "receipt", "purchase confirmation", "order successfully placed",
  "we'll send you an email" >>

\* String.prototype.includes
Includes(s, part) == \E i \in 1..(Len(s) - Len(part) + 1) : StartsAt(s, i, part)

\* confirmationSignals.some(signal => lowerContent.includes(signal))
HasConfirmation(lowerContent) ==
  \E k \in DOMAIN confirmationSignals : Includes(lowerContent, confirmationSignals[k])

Retailer(name, pattern) == [name |-> name, pattern |-> pattern]

\* the patterns carry the i flag; they are written in lower case and tested
\* against the folded text
retailerPatterns == <<
  Retailer("Amazon", Alt(<<L("amazon"), L("amzn")>>)),
  Retailer("eBay", Cat(<<WordBoundary, L("ebay"), WordBoundary>>)),
  Retailer("Walmart", L("walmart")),
  Retailer("Target", L("target")),
  Retailer("Best Buy", Alt(<<L("best buy"), L("bestbuy")>>)),
  Retailer("Apple", Cat(<<WordBoundary, L("apple"), WordBoundary>>)),
  Retailer("Nike", Cat(<<WordBoundary, L("nike"), WordBoundary>>)),
  Retailer("Bunnings", L("bunnings")) >>

\* the entries whose pattern matches the text
MatchingRetailers(lowerContent) ==
  {k \in DOMAIN retailerPatterns : Test(retailerPatterns[k].pattern, lowerContent)}

\* the for loop with its break: the first matching entry, null without one
RetailerIn(matching) ==
  IF matching = {} THEN Null ELSE Str(retailerPatterns[SetMin(matching)].name)

\* order\s*[:#]?\s* , the part of the order number pattern before its group
ORDER_NUMBER_INTRO ==
  Cat(<<IL("order"), Star(Cls("space")), Opt(Cls("colonhash")), Star(Cls("space"))>>)

\* ([A-Z0-9-]{4,}) under the i flag
ORDER_NUMBER_GROUP ==
  Cat(<<Cls("alnumdash"), Cls("alnumdash"), Cls("alnumdash"), Plus(Cls("alnumdash"))>>)

\* /order\s*[:#]?\s*([A-Z0-9-]{4,})/i
ORDER_NUMBER == Cat(<<ORDER_NUMBER_INTRO, ORDER_NUMBER_GROUP>>)

\* orderNumberMatch[1] of the match m: the group begins where the longest
\* introduction ends, since no character of the group can be part of it
OrderNumberGroup(s, m) == SubSeq(s, SetMax(M(ORDER_NUMBER_INTRO, s, m[1])), m[2] - 1)

\* orderNumberMatch?.[1] || null
OrderNumberIn(s, spans) ==
  IF spans = {}
    THEN Null
    ELSE OrElse(Str(OrderNumberGroup(s, Leftmost(spans, 1, "longest"))), Null)

\* String.prototype.split(/\n|\r/)
RECURSIVE SplitLines(_)
SplitLinesAt(s, k) ==
  IF k > Len(s)
    THEN <<s>>
    ELSE <<SubSeq(s, 1, k - 1)>> \o SplitLines(SubSeq(s, k + 1, Len(s)))

SplitLines(s) == SplitLinesAt(s, FirstStop("dot", s, 1, Len(s)))

\* /\d+\s*(x|pcs|items|qty)/i
QUANTITY_MARK ==
  Cat(<<Plus(Cls("digit")), Star(Cls("space")),
        Alt(<<IL("x"), IL("pcs"), IL("items"), IL("qty")>>)>>)

\* the filter of productLines
IsProductLine(line) ==
  /\ Len(line) > 10
  /\ Len(line) < 200
  /\ Includes(line, "$") \/ Test(QUANTITY_MARK, line)

\* /\$(\d+\.?\d*)/
PRICE_TAG ==
  Cat(<<L("$"), Plus(Cls("digit")), Opt(L(".")), Star(Cls("digit"))>>)

\* parseFloat of digits, or of digits "." digits, that begin at a; b is the
\* end of the integer digits and c the end of the text
DecimalValue(s, a, b, c) ==
  IF c > b + 1
    THEN Num(DigitsValue(SubSeq(s, a, b - 1) \o SubSeq(s, b + 1, c - 1)), c - b - 1)
    ELSE Num(DigitsValue(SubSeq(s, a, b - 1)), 0)

\* priceMatch ? parseFloat(priceMatch[1]) : null
LinePrice(line, spans) ==
  IF spans = {}
    THEN Null
    ELSE DecimalValue(line, Leftmost(spans, 1, "longest")[1] + 1,
                      FirstStop("digit", line, Leftmost(spans, 1, "longest")[1] + 1, Len(line)),
                      Leftmost(spans, 1, "longest")[2])

\* the object pushed for a product line
LineProduct(line) ==
  [name |-> Str(SubSeq(Trim(line), 1, Min2(50, Len(Trim(line))))),
   price |-> LinePrice(line, SpansOf(PRICE_TAG, line)),
   quantity |-> Num(1, 0),
   isRecurring |-> Bool(FALSE),
   category |-> Null,
   suggestedFrequencyDays |-> Num(30, 0)]

\* productLines.slice(0, 5)
MAX_HEURISTIC_PRODUCTS == 5

HeuristicProducts(lines) ==
  [k \in 1..Min2(MAX_HEURISTIC_PRODUCTS, Len(lines)) |-> LineProduct(lines[k])]

HEURISTIC_CONFIDENCE == Num(6, 1)

\* the object literal built for a text that holds a confirmation signal
HeuristicAnalysis(pageContent, lowerContent) ==
  [isOrderConfirmation |-> Bool(TRUE),
   confidence |-> HEURISTIC_CONFIDENCE,
   products |-> HeuristicProducts(SelectSeq(SplitLines(pageContent), IsProductLine)),
   retailer |-> RetailerIn(MatchingRetailers(lowerContent)),
   orderNumber |-> OrderNumberIn(pageContent, SpansOf(ORDER_NUMBER, pageContent))]

\* analyzeOrderWithHeuristics.  The negative result is the module's
\* DEFAULT_RESULT object itself, not a copy: fresh tells whether the result is
\* a new object, and default is the present content of DEFAULT_RESULT.
HeuristicsOf(pageContent, lowerContent, default) ==
  IF HasConfirmation(lowerContent)
    THEN [fresh |-> TRUE, value |-> HeuristicAnalysis(pageContent, lowerContent)]
    ELSE [fresh |-> FALSE, value |-> default]

\* analyzeOrderWithHeuristics without the toLowerCase of its first line
HeuristicsOfTextAsGiven(pageContent, default) ==
  HeuristicsOf(pageContent, pageContent, default)

analyzeOrderWithHeuristics(pageContent, default) ==
  HeuristicsOf(pageContent, ToLower(pageContent), default)

(***************************************************************************)
(* Service worker: ANALYZE_PAGE (background/service-worker.ts) and         *)
(* analyzeOrderWithAI (lib/llm.ts)                                         *)
(*                                                                         *)
(* worker.pc follows one request: "idle", "lookup" (the key is being read  *)
(* from storage), "fetching" (the request to the model endpoint is out),   *)
(* "analysed" (the provider's promise has resolved) and "replied".         *)
(* An analysis in hand is [fresh, value]: fresh is FALSE when the object   *)
(* is the DEFAULT_RESULT object of lib/llm.ts itself.                      *)
(***************************************************************************)
MaxRequests == 2

\* heuristicConfidence values of a request, in hundredths
Confidences == {85, 90, 95}

\* the threshold of the two branches that answer with createFallbackAnalysis
FALLBACK_THRESHOLD == 80

OVERRIDE_THRESHOLD == 90

PageContent(htmlContent, textContent) ==
  [t |-> "object", htmlContent |-> htmlContent, textContent |-> textContent]

\* typeof pageContent === 'string' ? pageContent : pageContent.textContent
FallbackContent(pageContent) ==
  IF pageContent.t = "string" THEN pageContent.v ELSE pageContent.textContent

SixProductLines ==
  "Order confirmation\nTea 250g box $4.50\nRice 5kg bag $12\nSoap 3 x 100g $3.\n"
    \o "Olive oil 1l $9.99\nOat milk 6 pcs\nPaper towels $7.25\nshort $1"

HeuristicTexts == {
  "\n  Order Confirmation\n  Thank you for your order!\n  Order #12345\n",
  "\n  Welcome to our store\n  Browse our products\n  Add to cart\n",
  "Order confirmation from Amazon - Order #123",
  "Order # ABC-12345-XYZ confirmed",
  "Order from Walmart",
  "Target order confirmation",
  "Best Buy purchase",
  "Apple Store order",
  "Order confirmation",
  "Thank you for your order",
  "Order has been received",
  "Purchase confirmation",
  "Order successfully placed",
  "Receipt from eBay\r2 x Coffee Beans 1kg $19.99\nDog Food 5kg $45.\nOrder: 7781-A",
  "Your order number: 4471-22 at bestbuy, pineapple juice",
  "We'll send you an email. Apple and Amazon gift cards, order:  ab1",
  SixProductLines }

PageContents ==
  {Str(text) : text \in HeuristicTexts}
    \cup {PageContent("<main>" \o text \o "</main>", text) : text \in HeuristicTexts}

Given(value) == [given |-> TRUE, value |-> value]

NotGiven == [given |-> FALSE, value |-> 0]

\* the parameter default of analyzePageContent: heuristicConfidence = 0
ConfidenceOf(heuristicConfidence) ==
  IF heuristicConfidence.given THEN heuristicConfidence.value ELSE 0

NoRequest == [content |-> Str(""), heuristicConfidence |-> NotGiven]

NoObject == [fresh |-> TRUE, value |-> NoAnalysis]

\* the texts the model endpoint answers with
ModelTexts == {
  ObjectText(BASE_ANALYSIS),
  FENCE \o "json\n" \o ObjectText(BASE_ANALYSIS) \o "\n" \o FENCE,
  "{\"isOrderConfirmation\":false,\"confidence\":0.2,\"products\":[]}",
  "{\"isOrderConfirmation\":0,\"confidence\":0.4,\"products\":[]}",
  "This page does not look like an order." }

\* .replace(/FENCE json\n?/g, '').replace(/FENCE\n?/g, '')
FENCE_RULES == <<
  Rule("const", Cat(<<L(FENCE \o "json"), Opt(L("\n"))>>), {At(FENCE, 1)}, "longest", ""),
  Rule("const", Cat(<<L(FENCE), Opt(L("\n"))>>), {At(FENCE, 1)}, "longest", "") >>

\* the analysis made of the text of the endpoint's first candidate
AnalysisOfText(text) ==
  [fresh |-> TRUE, value |-> parseOrderAnalysis(Trim(ReplaceWith(text, FENCE_RULES)))]

InitWorker ==
  /\ pc = "none"
  /\ url = ""
  /\ urlResult = NoResult
  /\ detailsResult = NoResult
  /\ page = EmptyPage
  /\ prevResult = NoResult
  /\ pageResult = NoResult
  /\ edits = 0
  /\ rawHtml = ""
  /\ content = NoContent
  /\ content2 = NoContent
  /\ response = ""
  /\ analysis = NoAnalysis
  /\ worker = [pc |-> "idle", DEFAULT_RESULT |-> DEFAULT_RESULT, request |-> NoRequest,
               handled |-> 0, fetches |-> 0, path |-> "none",
               extracted |-> NoObject, reply |-> NoAnalysis]
  /\ run = Unused
  /\ subs = Unused
  /\ dom = Unused
  /\ LateUnused

WorkerOnly == UNCHANGED <<pageVars, run, subs, dom, lateVars>>

\* handleMessage, case ANALYZE_PAGE, up to the await of the key lookup
ReceiveAnalyzePage ==
  /\ worker.pc = "idle"
  /\ worker.handled < MaxRequests
  /\ \E c \in PageContents, h \in {NotGiven} \cup {Given(v) : v \in Confidences} :
       worker' = [worker EXCEPT !.pc = "lookup",
                                !.request = [content |-> c, heuristicConfidence |-> h],
                                !.fetches = 0, !.path = "none",
                                !.extracted = NoObject, !.reply = NoAnalysis]
  /\ WorkerOnly

\* the provider's promise resolves with the heuristic analysis of the page text
FallBack(path) ==
  worker' = [worker EXCEPT
    !.pc = "analysed",
    !.path = path,
    !.extracted = analyzeOrderWithHeuristics(FallbackContent(worker.request.content),
                                             worker.DEFAULT_RESULT)]

\* chrome.storage.local.get('geminiApiKey') settles: without a key, or with
\* a rejection, the heuristic analysis is returned; with a key the request
\* to the endpoint is sent
KeyLookup ==
  /\ worker.pc = "lookup"
  /\ \/ FallBack("nokey")
     \/ FallBack("threw")
     \/ worker' = [worker EXCEPT !.pc = "fetching", !.fetches = @ + 1]
  /\ WorkerOnly

\* analyzeOrderWithAI without its try/catch and status test: a failed fetch
\* rejects the provider's promise
FetchFailsAndRejects ==
  /\ worker.pc = "fetching"
  /\ worker' = [worker EXCEPT !.pc = "rejected", !.path = "threw"]
  /\ WorkerOnly

\* the fetch settles with a non-success status (whether or not
\* response.text() then throws), or it rejects, or response.json() rejects,
\* or the decoded body is null
FetchFails ==
  /\ worker.pc = "fetching"
  /\ \/ FallBack("notok")
     \/ FallBack("threw")
  /\ WorkerOnly

\* the fetch settles with a success status and a body that has no candidate
\* text (content is '') or has the text of a first candidate
FetchAnswers ==
  /\ worker.pc = "fetching"
  /\ \E text \in ModelTexts \cup {""} :
       worker' = [worker EXCEPT !.pc = "analysed", !.path = "parsed",
                                !.extracted = AnalysisOfText(text)]
  /\ WorkerOnly

\* analysis.isOrderConfirmation = true; analysis.confidence = heuristicConfidence
Overridden(value, heuristicConfidence) ==
  [value EXCEPT !.isOrderConfirmation = Bool(TRUE),
                !.confidence = Num(heuristicConfidence, 2)]

\* !analysis.isOrderConfirmation && heuristicConfidence >= 0.9
Overrides(value, heuristicConfidence) ==
  IsFalsy(value.isOrderConfirmation) /\ heuristicConfidence >= OVERRIDE_THRESHOLD

\* analyzePageContent after the await of provider.analyzeOrderPage: the
\* assignments are made to the object the provider returned
PostProcess(value, heuristicConfidence) ==
  IF Overrides(value, heuristicConfidence)
    THEN Overridden(value, heuristicConfidence)
    ELSE value

Reply ==
  /\ worker.pc = "analysed"
  /\ worker' = [worker EXCEPT
       !.pc = "replied",
       !.handled = @ + 1,
       !.reply = PostProcess(worker.extracted.value,
                             ConfidenceOf(worker.request.heuristicConfidence)),
       !.DEFAULT_RESULT =
          IF worker.extracted.fresh
            THEN @
            ELSE PostProcess(@, ConfidenceOf(worker.request.heuristicConfidence))]
  /\ WorkerOnly

\* the response has been sent; the worker waits for the next message
Rest ==
  /\ worker.pc = "replied"
  /\ worker' = [worker EXCEPT !.pc = "idle"]
  /\ WorkerOnly

NextWorker ==
  \/ ReceiveAnalyzePage
  \/ KeyLookup
  \/ FetchFails
  \/ FetchAnswers
  \/ Reply
  \/ Rest

SpecWorker == InitWorker /\ [][NextWorker]_vars

(***************************************************************************)
(* Service worker: properties of analyzeOrderWithAI and of the             *)
(* post-processing of ANALYZE_PAGE                                         *)
(***************************************************************************)
\* the text analyzeOrderWithAI hands to the heuristics for the request in hand
RequestText == FallbackContent(worker.request.content)

\* the provider's promise has resolved on one of the fallback paths
FellBack == worker.pc = "analysed" /\ worker.path \in {"nokey", "notok", "threw"}

\* C11: analyzeOrderWithAI never rejects: without an API key it sends no
\* request to the endpoint and resolves to analyzeOrderWithHeuristics of the
\* page text, and it resolves to the same when the endpoint answers with a
\* non-success status or the key lookup, the fetch or the decoding throws.
C11_FallsBackToHeuristics ==
  /\ worker.pc \in {"idle", "lookup", "fetching", "analysed", "replied"}
  /\ FellBack =>
       /\ worker.extracted = analyzeOrderWithHeuristics(RequestText, worker.DEFAULT_RESULT)
       /\ worker.path = "nokey" => worker.fetches = 0

C11_Witness ==
  /\ FellBack
  /\ worker.path = "threw"
  /\ worker.fetches = 1
  /\ worker.request.content.t = "object"
  /\ worker.extracted.value.isOrderConfirmation = Bool(TRUE)

\* C12: when the provider's analysis says isOrderConfirmation = false and
\* heuristicConfidence is at least 0.9 (90 hundredths), the analysis returned
\* says true with confidence = heuristicConfidence and is otherwise the
\* provider's; when heuristicConfidence is below 0.9, or absent and so 0, the
\* provider's analysis is returned unchanged.
C12_OverrideAtNinety ==
  worker.pc = "replied" =>
    /\ (/\ worker.extracted.value.isOrderConfirmation = Bool(FALSE)
        /\ ConfidenceOf(worker.request.heuristicConfidence) >= 90) =>
         worker.reply =
           [worker.extracted.value EXCEPT
              !.isOrderConfirmation = Bool(TRUE),
              !.confidence = Num(worker.request.heuristicConfidence.value, 2)]
    /\ (\/ ~worker.request.heuristicConfidence.given
        \/ worker.request.heuristicConfidence.value < 90) =>
         worker.reply = worker.extracted.value

C12_Witness ==
  /\ worker.pc = "replied"
  /\ worker.path = "parsed"
  /\ worker.extracted.value.isOrderConfirmation = Bool(FALSE)
  /\ worker.request.heuristicConfidence = Given(90)
  /\ worker.reply.isOrderConfirmation = Bool(TRUE)
  /\ worker.reply.confidence = Num(90, 2)

C14_NegativeResultFixed ==
  (FellBack /\ ~HasConfirmation(ToLower(RequestText))) =>
    worker.extracted.value =
      [isOrderConfirmation |-> Bool(FALSE), confidence |-> Num(0, 0),
       products |-> <<>>, retailer |-> Null, orderNumber |-> Null]

\* C15: for every text that names a retailer of the table, the retailer
\* returned is the name of the first entry, in table order, whose pattern
\* matches the text.
C15_FirstMatchingRetailer ==
  (FellBack /\ MatchingRetailers(ToLower(RequestText)) # {}) =>
    worker.extracted.value.retailer = RetailerIn(MatchingRetailers(ToLower(RequestText)))

\* order\s*[:#]\s* : 'order' followed by '#' or ':'
ORDER_MARK ==
  Cat(<<IL("order"), Star(Cls("space")), Cls("colonhash"), Star(Cls("space"))>>)

\* the first place of the text where 'order' and its mark introduce four or
\* more characters of an identifier
MARKED_NUMBER == Cat(<<ORDER_MARK, ORDER_NUMBER_GROUP>>)

MarkedNumberGroup(s, m) == SubSeq(s, SetMax(M(ORDER_MARK, s, m[1])), m[2] - 1)

MarkedNumberIn(s, spans) == MarkedNumberGroup(s, Leftmost(spans, 1, "longest"))

\* C16: for every text in which 'order' followed by '#' or ':' introduces an
\* identifier of four or more letters, digits or hyphens, that identifier is
\* the orderNumber returned.
C16_MarkedOrderNumber ==
  (FellBack /\ Test(MARKED_NUMBER, RequestText)) =>
    worker.extracted.value.orderNumber =
      Str(MarkedNumberIn(RequestText, SpansOf(MARKED_NUMBER, RequestText)))

(***************************************************************************)
(* DOM fallback: extractProductsFromDOM (content/detector.ts)              *)
(*                                                                         *)
(* The document is given by what the queries of each strategy find in it,  *)
(* in document order: the matches of the two text patterns, the elements   *)
(* of the data attribute selectors, the elements of each class selector,   *)
(* the containers of each container selector with the texts of their       *)
(* candidate elements, the tables with the cell texts of their rows, and   *)
(* the list items with their text nodes.  A price is the value extractPrice*)
(* gives for the text around the element.                                  *)
(***************************************************************************)
PageUnused ==
  /\ pc = "none"
  /\ url = ""
  /\ urlResult = NoResult
  /\ detailsResult = NoResult
  /\ page = EmptyPage
  /\ prevResult = NoResult
  /\ pageResult = NoResult
  /\ edits = 0
  /\ rawHtml = ""
  /\ content = NoContent
  /\ content2 = NoContent
  /\ response = ""
  /\ analysis = NoAnalysis

SKIP_LABELS == {
  "your", "order", "thank", "confirmation", "item", "quantity", "price", "total",
  "subtotal", "shipping", "tax", "discount", "delivery", "fee", "promo", "coupon",
  "save", "free", "qty", "sku", "#" }

SKIP_HEADINGS == {
  "product", "description", "name", "details", "summary", "receipt", "invoice",
  "billing", "payment", "method", "address", "email", "phone", "date", "time",
  "status", "tracking" }

\* /^[\d\s\-\.\,\#\:]+$/
OnlyNumbers(t) ==
  /\ t # ""
  /\ \A k \in 1..Len(t) : At(t, k) \in DigitSet \cup SpaceSet \cup {"-", ".", ",", "#", ":"}

\* /^\$[\d\.\,]+$/
JustAPrice(t) ==
  /\ Len(t) >= 2
  /\ At(t, 1) = "$"
  /\ \A k \in 2..Len(t) : At(t, k) \in DigitSet \cup {".", ","}

\* !skipPatterns.some(p => p.test(text.trim()))
IsSkipped(t) ==
  \/ ToLower(t) \in SKIP_LABELS \cup SKIP_HEADINGS
  \/ OnlyNumbers(t)
  \/ JustAPrice(t)

isLikelyProductName(text) ==
  /\ Len(text) >= 4
  /\ Len(text) <= 200
  /\ ~IsSkipped(Trim(text))

DomProduct(name, price, quantity) ==
  [name |-> Str(name), price |-> price, quantity |-> Num(quantity, 0),
   isRecurring |-> Bool(TRUE), category |-> Null, suggestedFrequencyDays |-> Num(30, 0)]

\* products.some(p => p.name === name)
HasName(products, name) == \E k \in DOMAIN products : products[k].name = Str(name)

\* name.trim().replace(/\s+/g, ' ')
CleanName(name) == ReplaceWith(Trim(name), <<CollapseSpace>>)

AddClean(products, cleanName, price) ==
  IF isLikelyProductName(cleanName) /\ ~HasName(products, cleanName)
    THEN Append(products, DomProduct(cleanName, price, 1))
    ELSE products

addProduct(products, name, price) == AddClean(products, CleanName(name), price)

\* the body of the two while loops over the matches of a text pattern, for
\* the cleaned product name and the rounded quantity of one match
AddTextMatch(products, m) ==
  IF Len(m.name) > 5 /\ isLikelyProductName(m.name) /\ ~HasName(products, m.name)
    THEN Append(products, DomProduct(m.name, Null, m.quantity))
    ELSE products

RECURSIVE AddTextMatches(_, _, _)
AddTextMatches(products, matches, k) ==
  IF k > Len(matches)
    THEN products
    ELSE AddTextMatches(AddTextMatch(products, matches[k]), matches, k + 1)

\* Strategy 1: the "What's in order" section, and the kg pattern when the
\* section gave nothing
TextPatterns(document) ==
  IF AddTextMatches(<<>>, document.whatsInOrder, 1) # <<>>
    THEN AddTextMatches(<<>>, document.whatsInOrder, 1)
    ELSE AddTextMatches(<<>>, document.kg, 1)

\* forEach(el => { if (name) addProduct(name, price) })
RECURSIVE AddElements(_, _, _)
AddElements(products, elements, k) ==
  IF k > Len(elements)
    THEN products
    ELSE AddElements(
           IF elements[k].name # ""
             THEN addProduct(products, elements[k].name, elements[k].price)
             ELSE products,
           elements, k + 1)

\* Strategy 2: the elements of the data attribute selectors
DataAttributes(products, document) == AddElements(products, document.dataElements, 1)

\* a loop over selectors that ends with: if (products.length > 0) break
RECURSIVE ClassNamesFrom(_, _, _)
ClassNamesFrom(products, groups, k) ==
  IF k > Len(groups) \/ products # <<>>
    THEN products
    ELSE ClassNamesFrom(AddElements(products, groups[k], 1), groups, k + 1)

\* Strategy 3: the elements of the product name class selectors
ClassNames(products, document) == ClassNamesFrom(products, document.classElements, 1)

\* text && text.length > 5 && text.length < 150 && isLikelyProductName(text)
IsContainerName(text) == Len(text) > 5 /\ Len(text) < 150 /\ isLikelyProductName(text)

\* the first good match of a container, 0 when it has none
FirstContainerName(texts) ==
  IF \E k \in DOMAIN texts : IsContainerName(Trim(texts[k]))
    THEN SetMin({k \in DOMAIN texts : IsContainerName(Trim(texts[k]))})
    ELSE 0

AddContainer(products, container) ==
  IF FirstContainerName(container.texts) = 0
    THEN products
    ELSE addProduct(products, Trim(container.texts[FirstContainerName(container.texts)]),
                    container.price)

RECURSIVE AddContainers(_, _, _)
AddContainers(products, containers, k) ==
  IF k > Len(containers)
    THEN products
    ELSE AddContainers(AddContainer(products, containers[k]), containers, k + 1)

RECURSIVE ContainersFrom(_, _, _)
ContainersFrom(products, groups, k) ==
  IF k > Len(groups) \/ products # <<>>
    THEN products
    ELSE ContainersFrom(AddContainers(products, groups[k], 1), groups, k + 1)

\* Strategy 4: the containers of the order item selectors
Containers(products, document) == ContainersFrom(products, document.containers, 1)

\* text && isLikelyProductName(text)
IsCellName(text) == text # "" /\ isLikelyProductName(text)

FirstCellName(cells) ==
  IF \E k \in DOMAIN cells : IsCellName(Trim(cells[k]))
    THEN SetMin({k \in DOMAIN cells : IsCellName(Trim(cells[k]))})
    ELSE 0

AddRow(products, row) ==
  IF FirstCellName(row.cells) = 0
    THEN products
    ELSE addProduct(products, Trim(row.cells[FirstCellName(row.cells)]), row.price)

RECURSIVE AddRows(_, _, _)
AddRows(products, rows, k) ==
  IF k > Len(rows)
    THEN products
    ELSE AddRows(AddRow(products, rows[k]), rows, k + 1)

\* Array.from(tables).slice(0, 5)
MAX_TABLES == 5

RECURSIVE TablesFrom(_, _, _)
TablesFrom(products, tables, k) ==
  IF k > Min2(MAX_TABLES, Len(tables)) \/ products # <<>>
    THEN products
    ELSE TablesFrom(AddRows(products, tables[k], 1), tables, k + 1)

\* Strategy 5: the rows of the first tables
Tables(products, document) == TablesFrom(products, document.tables, 1)

\* t.length > 5, isLikelyProductName(t) && !t.includes('$')
IsItemName(t) == Len(t) > 5 /\ isLikelyProductName(t) /\ ~Includes(t, "$")

\* .sort((a, b) => b.length - a.length)[0]: the first of the longest texts
LongestItemName(texts) ==
  LET good == {k \in DOMAIN texts : IsItemName(Trim(texts[k]))}
  IN  IF good = {}
        THEN 0
        ELSE SetMin({k \in good : \A j \in good : Len(Trim(texts[j])) <= Len(Trim(texts[k]))})

\* if (price) { ... if (candidate) addProduct(candidate, price) }
AddListItem(products, item) ==
  IF IsFalsy(item.price) \/ LongestItemName(item.textNodes) = 0
    THEN products
    ELSE addProduct(products, Trim(item.textNodes[LongestItemName(item.textNodes)]),
                    item.price)

\* Array.from(listItems).slice(0, 50)
MAX_LIST_ITEMS == 50

RECURSIVE AddListItems(_, _, _)
AddListItems(products, items, k) ==
  IF k > Min2(MAX_LIST_ITEMS, Len(items))
    THEN products
    ELSE AddListItems(AddListItem(products, items[k]), items, k + 1)

\* Strategy 6: the list items that carry a price
ListItems(products, document) == AddListItems(products, document.listItems, 1)

STRATEGIES == 6

\* what strategy n leaves in products
StrategyResult(n, products, document) ==
  CASE n = 1 -> TextPatterns(document)
    [] n = 2 -> DataAttributes(products, document)
    [] n = 3 -> ClassNames(products, document)
    [] n = 4 -> Containers(products, document)
    [] n = 5 -> Tables(products, document)
    [] n = 6 -> ListItems(products, document)

\* the strategies that stand under if (products.length === 0)
RunsOnlyWhenEmpty(n) == n \in {3, 4, 5, 6}

\* products after strategy n, with the strategies that ran and those that
\* added a product
AfterStrategy(n, state, next) ==
  [products |-> next,
   ran |-> state.ran \cup {n},
   added |-> IF next # state.products THEN state.added \cup {n} ELSE state.added]

RECURSIVE StrategiesFrom(_, _, _)
StrategiesFrom(n, state, document) ==
  IF n > STRATEGIES
    THEN state
    ELSE IF RunsOnlyWhenEmpty(n) /\ state.products # <<>>
      THEN StrategiesFrom(n + 1, state, document)
      ELSE StrategiesFrom(
             n + 1,
             AfterStrategy(n, state, StrategyResult(n, state.products, document)),
             document)

\* return products.slice(0, 10)
MAX_DOM_PRODUCTS == 10

Extraction(state) ==
  [products |-> SubSeq(state.products, 1, Min2(MAX_DOM_PRODUCTS, Len(state.products))),
   ran |-> state.ran, added |-> state.added]

NothingYet == [products |-> <<>>, ran |-> {}, added |-> {}]

ExtractionOf(document) == Extraction(StrategiesFrom(1, NothingYet, document))

extractProductsFromDOM(document) == ExtractionOf(document).products

(***************************************************************************)
(* Documents the fallback is exercised on                                  *)
(***************************************************************************)
TextMatch(name, quantity) == [name |-> name, quantity |-> quantity]

Element(name, price) == [name |-> name, price |-> price]

Container(texts, price) == [texts |-> texts, price |-> price]

Row(cells, price) == [cells |-> cells, price |-> price]

ListItem(textNodes, price) == [textNodes |-> textNodes, price |-> price]

\* a table of eleven rows that name different products
ElevenRows ==
  [k \in 1..(MAX_DOM_PRODUCTS + 1) |->
     Row(<<"1", "Widget " \o SubSeq(UPPER, k, k), "$5.00">>, Num(500, 2))]

DomDocuments ==
  [whatsInOrder : {<<>>, <<TextMatch("Potting Mix", 2), TextMatch("Hose", 1)>>},
   kg : {<<>>, <<TextMatch("Royal Gala Apples", 1)>>},
   dataElements : {<<>>,
                   <<Element("Garden Hose 15m", Num(2999, 2))>>,
                   <<Element("Potting\n  Mix ", Null), Element("Total", Null),
                     Element("", Null)>>},
   classElements : {<<>>,
                    << <<Element("Price", Null)>>,
                       <<Element("Cat  Food 2kg", Num(12, 0)), Element("Tea", Null),
                         Element("Cat Food 2kg", Null)>>,
                       <<Element("Bird Seed", Null)>> >>},
   containers : {<<>>,
                 << <<Container(<<"Qty", "12 - 34", " Olive Oil 1l ", "Olive">>, Null),
                      Container(<<"Total", "$9.99">>, Num(999, 2))>> >>},
   tables : {<<>>,
             <<ElevenRows>>,
             << <<Row(<<"Item", "Price">>, Null)>>,
                <<Row(<<"", "Milk", "$2">>, Num(2, 0)), Row(<<>>, Null)>>,
                <<Row(<<"Bread">>, Null)>> >>},
   listItems : {<<>>,
                <<ListItem(<<"$4.50 each", "Green Tea", "Green Tea 250g", "Oolong Tea 250g">>,
                           Num(450, 2)),
                  ListItem(<<"Unpriced item">>, Null)>>}]

NoDocument ==
  [whatsInOrder |-> <<>>, kg |-> <<>>, dataElements |-> <<>>, classElements |-> <<>>,
   containers |-> <<>>, tables |-> <<>>, listItems |-> <<>>]

InitDom ==
  /\ PageUnused
  /\ worker = Unused
  /\ run = Unused
  /\ subs = Unused
  /\ LateUnused
  /\ \E document \in DomDocuments :
       dom = [pc |-> "loaded", document |-> document, products |-> <<>>,
              ran |-> {}, added |-> {}]

\* extractProductsFromDOM on the document in hand
ExtractFromDOM ==
  /\ dom.pc = "loaded"
  /\ dom' = [dom EXCEPT !.pc = "extracted",
                        !.products = ExtractionOf(dom.document).products,
                        !.ran = ExtractionOf(dom.document).ran,
                        !.added = ExtractionOf(dom.document).added]
  /\ UNCHANGED <<pageVars, worker, run, subs, lateVars>>

NextDom == ExtractFromDOM

SpecDom == InitDom /\ [][NextDom]_vars

\* C20: the strategies are tried in their order and the first that yields a
\* product is the last to run: no strategy runs after one that added a
\* product, so the products returned come from one strategy.
C20_StopsAtFirstYield ==
  dom.pc = "extracted" =>
    /\ \A n \in dom.ran, m \in dom.added : n <= m
    /\ Cardinality(dom.added) <= 1

(***************************************************************************)
(* Subscriptions: markAsOrdered, updateSubscription (lib/subscriptions.ts) *)
(* and the reminder test (lib/reminders.ts)                                *)
(*                                                                         *)
(* One row of the subscriptions table, created at day 0.  Time is counted  *)
(* in whole days.  Each function is a request to the table, its answer and *)
(* a second request; the service worker starts a function for every        *)
(* message it receives, so the requests of two functions can interleave.   *)
(***************************************************************************)
MaxDays == 3

\* frequency_days of a subscription
Frequencies == {1, 2}

Date(day) == [t |-> "date", v |-> day]

\* baseDate is lastOrderedAt, or the present time without one
calculateNextReminderDate(lastOrderedAt, frequencyDays, today) ==
  Date((IF IsNullish(lastOrderedAt) THEN today ELSE lastOrderedAt.v) + frequencyDays)

\* the row createSubscription inserts at day 0
CreatedRow(frequencyDays) ==
  [frequency_days |-> frequencyDays,
   last_ordered_at |-> Date(0),
   next_reminder_at |-> calculateNextReminderDate(Null, frequencyDays, 0)]

\* !subscription.next_reminder_at ? false : reminderDate <= now
isDueForReminder(subscription, today) ==
  /\ ~IsNullish(subscription.next_reminder_at)
  /\ subscription.next_reminder_at.v <= today

\* .lte('next_reminder_at', now): the rows the query returns
getDueSubscriptions(row, today) ==
  IF ~IsNullish(row.next_reminder_at) /\ row.next_reminder_at.v <= today
    THEN {row}
    ELSE {}

NoUpdate == [given |-> FALSE, value |-> Null]

IdleMark == [pc |-> "idle", now |-> Null, update |-> NoUpdate, result |-> "none"]

IdleUpdate == [pc |-> "idle", frequency_days |-> 0, next_reminder_at |-> NoUpdate]

InitSubs ==
  /\ PageUnused
  /\ worker = Unused
  /\ run = Unused
  /\ dom = Unused
  /\ LateUnused
  /\ \E f \in Frequencies :
       subs = [clock |-> 0, row |-> CreatedRow(f), mark |-> IdleMark,
               upd |-> IdleUpdate, due |-> {}]

SubsOnly == UNCHANGED <<pageVars, worker, run, dom, lateVars>>

\* a day passes
Tick ==
  /\ subs.clock < MaxDays
  /\ subs' = [subs EXCEPT !.clock = @ + 1]
  /\ SubsOnly

\* markAsOrdered(id) is called: getSubscription(id) is sent
MarkAsOrderedCalled ==
  /\ subs.mark.pc \in {"idle", "done"}
  /\ subs' = [subs EXCEPT !.mark = [IdleMark EXCEPT !.pc = "reading"]]
  /\ SubsOnly

\* getSubscription answers: with an error markAsOrdered returns null, with
\* the row it takes the time and sends the update
MarkAsOrderedRead ==
  /\ subs.mark.pc = "reading"
  /\ \/ subs' = [subs EXCEPT !.mark.pc = "done", !.mark.result = "null"]
     \/ subs' = [subs EXCEPT
          !.mark.pc = "writing",
          !.mark.now = Date(subs.clock),
          !.mark.update = Given(calculateNextReminderDate(
                                  Date(subs.clock), subs.row.frequency_days, subs.clock))]
  /\ SubsOnly

\* the update of markAsOrdered is applied, or fails
MarkAsOrderedWritten ==
  /\ subs.mark.pc = "writing"
  /\ \/ subs' = [subs EXCEPT !.mark.pc = "done", !.mark.result = "null"]
     \/ subs' = [subs EXCEPT
          !.mark.pc = "done",
          !.mark.result = "row",
          !.row.last_ordered_at = subs.mark.now,
          !.row.next_reminder_at = subs.mark.update.value]
  /\ SubsOnly

\* updateSubscription(id, {frequency_days}) is called: the select of
\* last_ordered_at is sent
UpdateSubscriptionCalled ==
  /\ subs.upd.pc = "idle"
  /\ \E f \in Frequencies :
       subs' = [subs EXCEPT !.upd = [IdleUpdate EXCEPT !.pc = "reading",
                                                       !.frequency_days = f]]
  /\ SubsOnly

\* the select answers: without a row next_reminder_at is left out of the
\* update, with the row it is computed from the row's last_ordered_at
UpdateSubscriptionRead ==
  /\ subs.upd.pc = "reading"
  /\ \/ subs' = [subs EXCEPT !.upd.pc = "writing"]
     \/ subs' = [subs EXCEPT
          !.upd.pc = "writing",
          !.upd.next_reminder_at =
             Given(calculateNextReminderDate(subs.row.last_ordered_at,
                                             subs.upd.frequency_days, subs.clock))]
  /\ SubsOnly

\* the update of updateSubscription is applied, or fails
UpdateSubscriptionWritten ==
  /\ subs.upd.pc = "writing"
  /\ \/ subs' = [subs EXCEPT !.upd = IdleUpdate]
     \/ subs' = [subs EXCEPT
          !.upd = IdleUpdate,
          !.row.frequency_days = subs.upd.frequency_days,
          !.row.next_reminder_at =
             IF subs.upd.next_reminder_at.given
               THEN subs.upd.next_reminder_at.value
               ELSE @]
  /\ SubsOnly

\* the reminder alarm: getDueSubscriptions
CheckReminders ==
  /\ subs' = [subs EXCEPT !.due = getDueSubscriptions(subs.row, subs.clock)]
  /\ SubsOnly

NextSubs ==
  \/ Tick
  \/ MarkAsOrderedCalled
  \/ MarkAsOrderedRead
  \/ MarkAsOrderedWritten
  \/ UpdateSubscriptionCalled
  \/ UpdateSubscriptionRead
  \/ UpdateSubscriptionWritten
  \/ CheckReminders

SpecSubs == InitSubs /\ [][NextSubs]_vars

\* markAsOrdered returns the updated row
MarkSucceeds == subs.mark.pc = "writing" /\ subs'.mark.result = "row"

\* C19: when markAsOrdered succeeds the row's last_ordered_at is the time
\* the call took and its next_reminder_at is that time plus the row's
\* frequency_days days, so the row is due, for isDueForReminder and for
\* getDueSubscriptions, only when frequency_days days have passed since.
C19_NextReminderAfterFrequency ==
  [][MarkSucceeds =>
       /\ subs'.row.last_ordered_at = subs.mark.now
       /\ subs'.row.next_reminder_at =
            Date(subs.mark.now.v + subs'.row.frequency_days)
       /\ isDueForReminder(subs'.row, subs'.clock) =>
            subs'.clock >= subs.mark.now.v + subs'.row.frequency_days
       /\ getDueSubscriptions(subs'.row, subs'.clock) # {} =>
            subs'.clock >= subs.mark.now.v + subs'.row.frequency_days]_vars

(***************************************************************************)
(* Content script: detectOrderConfirmation and showSubscriptionPrompt      *)
(* (content/detector.ts, lines 71-226 and 538-563)                         *)
(*                                                                         *)
(* run.pc follows one call of detectOrderConfirmation: "idle", "settings"  *)
(* (chrome.storage.sync.get is awaited) and "sent" (the answer to          *)
(* ANALYZE_PAGE is awaited).  run.settings, run.sent, run.prompt and       *)
(* run.outcome tell what the last call read, sent and presented.  The      *)
(* answer to ANALYZE_PAGE is one the service worker can give for the       *)
(* message: its post-processing of what the parser makes of a model text,  *)
(* or of the heuristic analysis of the page text.  run.site holds the      *)
(* pages the site shows, with their classifications, run.modelAnalyses     *)
(* what the provider makes of the model texts and run.domResults what the  *)
(* DOM fallback finds in the documents; they do not change.                *)
(***************************************************************************)
DETECTION_DEBOUNCE_MS == 2000

MaxClockMs == 2000

\* heuristicResult.confidence >= 0.7, in hundredths
DOM_PROMPT_THRESHOLD == 70

DetectUrls == {
  "https://shop.example.com/about",
  "https://shop.example.com/orders/98765",
  "https://shop.example.com/checkout/order-confirmation",
  "https://shop.example.com/order-confirmation?orderId=5" }

\* document.title and document.body.innerHTML
DetectDocumentsHtml == {
  <<"Some Page", "<h1>Welcome to our store.</h1>">>,
  <<"Some Page", "<p>Thank you for your purchase!</p>">>,
  <<"Order Confirmation",
    "<script>track()</script><p>Thank you for your purchase!</p> <p>Order #12345.</p>">> }

\* a model text that lists one product more than the DOM fallback returns
ElevenProductsText ==
  ObjectText(<<
    <<"isOrderConfirmation", "true">>, <<"confidence", "0.9">>,
    <<"products",
      ArrayText([k \in 1..(MAX_DOM_PRODUCTS + 1) |->
                   ObjectText(<< <<"name", "\"Item " \o SubSeq(UPPER, k, k) \o "\"">>,
                                 <<"isRecurring", "true">> >>)])>> >>)

DetectModelTexts == {
  ObjectText(BASE_ANALYSIS),
  ElevenProductsText,
  "{\"isOrderConfirmation\":true,\"confidence\":0.8,\"products\":[],\"retailer\":\"Acme\"}",
  "{\"isOrderConfirmation\":false,\"confidence\":0.2,\"products\":[]}" }

\* what the provider makes of the model texts
ModelAnalyses == {AnalysisOfText(t).value : t \in DetectModelTexts}

\* the pages a run can find at a location: the title and the content
\* extracted from the body
DetectPages ==
  {[url |-> u, title |-> d[1], extracted |-> extractPageContent(d[2])] :
     u \in DetectUrls, d \in DetectDocumentsHtml}

PageInfo(p) == [url |-> p.url, title |-> p.title, bodyText |-> p.extracted.text]

\* a page with its classifications and with the heuristic analysis the
\* provider makes of its text
ClassifiedPage(p, pageInfo) ==
  [page |-> p,
   heuristicResult |-> isLikelyOrderConfirmationPage(pageInfo),
   orderDetailsResult |-> isOrderDetailsPage(p.url),
   shouldAnalyzePage |-> shouldAnalyzeWithLLM(pageInfo),
   heuristicAnalysis |-> analyzeOrderWithHeuristics(p.extracted.text, DEFAULT_RESULT).value]

ClassifiedPages ==
  UNION {{ClassifiedPage(p, pageInfo) : pageInfo \in {PageInfo(p)}} : p \in DetectPages}

\* the analyses the service worker can answer the message with
WorkerAnswers(message, modelAnalyses) ==
  {PostProcess(a, message.heuristicConfidence) :
     a \in modelAnalyses \cup {message.heuristicAnalysis}}

DetectDocuments == {
  NoDocument,
  [NoDocument EXCEPT !.tables = <<ElevenRows>>],
  [NoDocument EXCEPT !.kg = <<TextMatch("Royal Gala Apples", 1)>>,
                     !.dataElements = <<Element("Garden Hose 15m", Num(2999, 2))>>] }

\* what extractProductsFromDOM returns for the documents
DomResults == {extractProductsFromDOM(document) : document \in DetectDocuments}

\* the message ANALYZE_PAGE, with the answer the heuristics would give for it
NoMessage ==
  [htmlContent |-> "", textContent |-> "", heuristicConfidence |-> 0,
   heuristicAnalysis |-> NoAnalysis]

NoPrompt == [shown |-> FALSE, products |-> <<>>, retailer |-> Null]

\* the settings are not read yet
NoSettings == [given |-> FALSE, value |-> Undefined]

Prompt(products, retailer) ==
  [shown |-> TRUE, products |-> products, retailer |-> retailer]

\* what a call of detectOrderConfirmation starts with
NewRun(r) ==
  [r EXCEPT !.settings = NoSettings, !.isOrderDetails = FALSE, !.promptLikely = FALSE,
            !.message = NoMessage, !.sent = 0, !.answer = NoAnalysis, !.fromDOM = <<>>,
            !.prompt = NoPrompt, !.outcome = "none"]

InitDetect ==
  /\ PageUnused
  /\ worker = Unused
  /\ subs = Unused
  /\ dom = Unused
  /\ LateUnused
  /\ \E site \in {ClassifiedPages}, modelAnalyses \in {ModelAnalyses},
        domResults \in {DomResults}, stored \in {Undefined, Bool(TRUE), Bool(FALSE)} :
       run = [site |-> site, modelAnalyses |-> modelAnalyses, domResults |-> domResults,
              pc |-> "idle", now |-> 0, lastProcessedUrl |-> "", lastProcessedTime |-> 0,
              stored |-> stored, promptInDocument |-> FALSE, url |-> "",
              settings |-> NoSettings, isOrderDetails |-> FALSE, promptLikely |-> FALSE,
              message |-> NoMessage, sent |-> 0, answer |-> NoAnalysis, fromDOM |-> <<>>,
              prompt |-> NoPrompt, outcome |-> "none"]

RunOnly == UNCHANGED <<pageVars, worker, subs, dom, lateVars>>

\* time passes
Later ==
  /\ run.now < MaxClockMs
  /\ run' = [run EXCEPT !.now = @ + DETECTION_DEBOUNCE_MS \div 2]
  /\ RunOnly

\* the options page stores the setting
ChangeSetting ==
  /\ \E stored \in {Bool(TRUE), Bool(FALSE)} :
       /\ stored # run.stored
       /\ run' = [run EXCEPT !.stored = stored]
  /\ RunOnly

\* the user closes the prompt
ClosePrompt ==
  /\ run.promptInDocument
  /\ run' = [run EXCEPT !.promptInDocument = FALSE]
  /\ RunOnly

\* a debounce that looks at the location only
DebouncedByUrl(r, u) == u = r.lastProcessedUrl

\* url === lastProcessedUrl && now - lastProcessedTime < DETECTION_DEBOUNCE_MS
Debounced(r, u) ==
  u = r.lastProcessedUrl /\ r.now - r.lastProcessedTime < DETECTION_DEBOUNCE_MS

\* detectOrderConfirmation is called at the location u, up to the await of
\* the settings
StartDetection ==
  /\ run.pc = "idle"
  /\ \E u \in DetectUrls :
       run' = IF Debounced(run, u)
                THEN [NewRun(run) EXCEPT !.url = u, !.outcome = "debounced"]
                ELSE [NewRun(run) EXCEPT !.url = u, !.pc = "settings",
                                         !.lastProcessedUrl = u,
                                         !.lastProcessedTime = run.now]
  /\ RunOnly

\* settings.showOnOrderDetails !== false
ShowOnOrderDetails(setting) == setting # Bool(FALSE)

\* a run that goes on whatever the setting is
ProceedsWithoutGate(isOrderDetails, showOnOrderDetails, shouldAnalyze) == shouldAnalyze

\* neither of the two returns before the message is taken
Proceeds(isOrderDetails, showOnOrderDetails, shouldAnalyze) ==
  shouldAnalyze /\ ~(isOrderDetails /\ ~showOnOrderDetails)

\* the run from the answer of the settings to its return or to the sending
\* of ANALYZE_PAGE, for the classified page c
Decided(r, c) ==
  LET isOrderDetails == c.orderDetailsResult.isLikelyOrderConfirmation
      showOnOrderDetails == ShowOnOrderDetails(r.stored)
      shouldAnalyze == isOrderDetails \/ c.shouldAnalyzePage
      read == [r EXCEPT !.settings = Given(r.stored), !.isOrderDetails = isOrderDetails]
  IN  IF Proceeds(isOrderDetails, showOnOrderDetails, shouldAnalyze)
        THEN [read EXCEPT
                !.pc = "sent",
                !.sent = @ + 1,
                !.outcome = "analysing",
                !.promptLikely =
                   \/ isOrderDetails
                   \/ /\ c.heuristicResult.isLikelyOrderConfirmation
                      /\ c.heuristicResult.confidence >= DOM_PROMPT_THRESHOLD,
                !.message =
                   [htmlContent |-> c.page.extracted.html,
                    textContent |-> c.page.extracted.text,
                    heuristicConfidence |->
                      Max2(c.heuristicResult.confidence, c.orderDetailsResult.confidence),
                    heuristicAnalysis |-> c.heuristicAnalysis]]
        ELSE [read EXCEPT
                !.pc = "idle",
                !.outcome = IF shouldAnalyze THEN "setting-disabled" ELSE "not-order-page"]

\* the settings arrive; the content is extracted and classified
ReadSettings ==
  /\ run.pc = "settings"
  /\ \E c \in run.site :
       /\ c.page.url = run.url
       /\ run' = Decided(run, c)
  /\ RunOnly

\* the products showSubscriptionPrompt shows for the analysis, fromDOM
\* being what extractProductsFromDOM returns
ProductsToShow(products, fromDOM) ==
  IF products # <<>>
    THEN products
    ELSE IF fromDOM # <<>>
      THEN fromDOM
      ELSE <<DomProduct("Items from this order", Null, 1)>>

\* showSubscriptionPrompt: nothing when a prompt is in the document
Shown(r, given, fromDOM) ==
  IF r.promptInDocument
    THEN [r EXCEPT !.pc = "idle", !.outcome = "prompt-exists"]
    ELSE [r EXCEPT !.pc = "idle", !.outcome = "prompted", !.promptInDocument = TRUE,
                   !.prompt = Prompt(ProductsToShow(given.products, fromDOM),
                                     given.retailer)]

\* the first position of lit in s, 0 when s does not hold it
IndexOf(s, lit) ==
  IF \E i \in 1..Len(s) : StartsAt(s, i, lit)
    THEN SetMin({i \in 1..Len(s) : StartsAt(s, i, lit)})
    ELSE 0

\* s.replace(lit, ''): the first occurrence is taken out
WithoutFirst(s, lit) ==
  LET i == IndexOf(s, lit)
  IN  IF i = 0 THEN s ELSE SubSeq(s, 1, i - 1) \o SubSeq(s, i + Len(lit), Len(s))

\* new URL(url).hostname, for a location without user, password and port
Hostname(href) ==
  LET rest == SubSeq(href, IndexOf(href, "://") + 3, Len(href))
      stops == {i \in 1..Len(rest) : At(rest, i) \in {"/", "?", "#"}}
  IN  IF stops = {} THEN rest ELSE SubSeq(rest, 1, SetMin(stops) - 1)

\* the analysis the prompt is given when the answer has no products
AnalysisForDOM(r, finalAnalysis) ==
  [isOrderConfirmation |-> Bool(TRUE),
   confidence |-> Num(r.message.heuristicConfidence, 2),
   products |-> <<>>,
   retailer |-> OrElse(finalAnalysis.retailer,
                       Str(WithoutFirst(Hostname(r.url), "www."))),
   orderNumber |-> OrElse(finalAnalysis.orderNumber, Null)]

\* the run from the answer to ANALYZE_PAGE on
Answered(r, finalAnalysis, fromDOM) ==
  LET answered == [r EXCEPT !.answer = finalAnalysis, !.fromDOM = fromDOM]
  IN  IF ~IsFalsy(finalAnalysis.isOrderConfirmation) /\ Len(finalAnalysis.products) > 0
        THEN Shown(answered, finalAnalysis, fromDOM)
        ELSE IF r.promptLikely
          THEN Shown(answered, AnalysisForDOM(r, finalAnalysis), fromDOM)
          ELSE [answered EXCEPT !.pc = "idle", !.outcome = "no-prompt"]

\* the answer to ANALYZE_PAGE arrives, with an analysis or without one
ResponseArrives ==
  /\ run.pc = "sent"
  /\ \E fromDOM \in run.domResults :
       \E finalAnalysis \in WorkerAnswers(run.message, run.modelAnalyses) \cup {NoAnalysis} :
         run' = Answered(run, finalAnalysis, fromDOM)
  /\ RunOnly

\* chrome.runtime.sendMessage rejects: the catch block logs the error
SendRejects ==
  /\ run.pc = "sent"
  /\ run' = [run EXCEPT !.pc = "idle", !.outcome = "error"]
  /\ RunOnly

NextDetect ==
  \/ Later
  \/ ChangeSetting
  \/ ClosePrompt
  \/ StartDetection
  \/ ReadSettings
  \/ ResponseArrives
  \/ SendRejects

SpecDetect == InitDetect /\ [][NextDetect]_vars

\* the run has read the settings
SettingsKnown == run.settings.given

\* C17: every product list the prompt is given, whether it comes from the
\* parser, the heuristics or the DOM fallback, has at most 10 products.
C17_AtMostTenProducts ==
  run.prompt.shown => Len(run.prompt.products) <= 10

\* C18: a run that reads the setting as false on a URL classified as an
\* order-details page sends no ANALYZE_PAGE and presents no prompt; a run
\* that finds no stored setting goes on as with true, and so sends the
\* message on such a URL.
C18_SettingGatesOrderDetails ==
  (SettingsKnown /\ run.isOrderDetails) =>
    /\ run.settings.value = Bool(FALSE) =>
         /\ run.sent = 0
         /\ ~run.prompt.shown
         /\ run.outcome = "setting-disabled"
    /\ run.settings.value \in {Undefined, Bool(TRUE)} => run.sent = 1

C18_Witness ==
  /\ SettingsKnown
  /\ run.settings.value = Bool(FALSE)
  /\ run.url = "https://shop.example.com/orders/98765"
  /\ run.outcome = "setting-disabled"
  /\ run.sent = 0
  /\ run.promptInDocument

\* a step of StartDetection: the idle content script is called and returns
\* at once or awaits the settings, while the clock, the stored setting and
\* the document stay as they are
DetectionCalled ==
  /\ run.pc = "idle"
  /\ run'.pc = "settings" \/ run'.outcome = "debounced"
  /\ run'.now = run.now
  /\ run'.stored = run.stored
  /\ run'.promptInDocument = run.promptInDocument

\* the call is for the location processed last, less than 2000 ms after that
\* run started
CalledAgainSoon ==
  /\ run'.url = run.lastProcessedUrl
  /\ run.now - run.lastProcessedTime < 2000

\* C21: a call of detectOrderConfirmation for the location processed last,
\* less than 2000 ms after that run started, returns at once: it reads no
\* setting, classifies nothing, sends no ANALYZE_PAGE, presents no prompt
\* and leaves lastProcessedUrl and lastProcessedTime as they were; a call
\* for another location, or 2000 ms or more later, is processed and records
\* its location and time.
C21_Debounce ==
  [][DetectionCalled =>
       IF CalledAgainSoon
         THEN /\ run'.pc = "idle"
              /\ run'.outcome = "debounced"
              /\ ~run'.settings.given
              /\ run'.message = NoMessage
              /\ run'.sent = 0
              /\ ~run'.prompt.shown
              /\ run'.promptInDocument = run.promptInDocument
              /\ run'.lastProcessedUrl = run.lastProcessedUrl
              /\ run'.lastProcessedTime = run.lastProcessedTime
         ELSE /\ run'.pc = "settings"
              /\ run'.lastProcessedUrl = run'.url
              /\ run'.lastProcessedTime = run.now]_vars

C21_Witness ==
  /\ run.outcome = "debounced"
  /\ run.url = run.lastProcessedUrl
  /\ run.now - run.lastProcessedTime = DETECTION_DEBOUNCE_MS \div 2
  /\ run.promptInDocument

\* the page the run extracted its message from, with its classifications
PageOfRun ==
  CHOOSE c \in run.site :
    c.page.url = run.url /\ c.page.extracted.text = run.message.textContent

\* the URL is an order-details URL, or the page is classified likely with a
\* confidence of 0.7 or more
SignalHigh ==
  \/ PageOfRun.orderDetailsResult.isLikelyOrderConfirmation
  \/ /\ PageOfRun.heuristicResult.isLikelyOrderConfirmation
     /\ PageOfRun.heuristicResult.confidence >= 70

Confirms(answer) == ~IsFalsy(answer.isOrderConfirmation)

\* the prompt shows what the DOM extraction found, under the retailer
PresentsFromDOM(retailer) ==
  /\ run.prompt.shown
  /\ run.fromDOM # <<>> => run.prompt.products = run.fromDOM
  /\ ~IsFalsy(retailer) => run.prompt.retailer = retailer

\* the run got its answer while no prompt was in the document
AnsweredRun == run.outcome \in {"prompted", "no-prompt"}

\* C25: an answer that confirms the order and has products is presented as
\* it is; an answer that confirms the order and has no products is always
\* presented with the products of the DOM extraction, under the answer's
\* retailer; with a negative or missing answer the prompt is presented,
\* with the products of the DOM extraction, only when the URL is an
\* order-details URL or the page is classified likely with a confidence of
\* 0.7 or more, and nothing is presented otherwise.
C25_TrustPolicy ==
  AnsweredRun =>
    /\ (Confirms(run.answer) /\ Len(run.answer.products) > 0) =>
         run.prompt = Prompt(run.answer.products, run.answer.retailer)
    /\ (Confirms(run.answer) /\ Len(run.answer.products) = 0) =>
         PresentsFromDOM(run.answer.retailer)
    /\ ~Confirms(run.answer) =>
         IF SignalHigh THEN PresentsFromDOM(run.answer.retailer) ELSE ~run.prompt.shown

(***************************************************************************)
(* Content script: waitForDynamicContent (content/detector.ts, lines 21-66)*)
(*                                                                         *)
(* wait.clock counts the milliseconds since the call, in steps of half a   *)
(* check interval.  A timer runs when the clock stands at its time, before *)
(* the clock moves on.  The page may change at every instant; a change     *)
(* made while no observer is connected has no effect on the wait.          *)
(***************************************************************************)
MIN_WAIT_MS == 3000

MAX_WAIT_MS == 8000

\* setTimeout(checkStable, 100)
CHECK_INTERVAL_MS == 100

\* timeSinceLastChange > 800
STABLE_MS == 800

\* maxChecks
MAX_CHECKS == 50

MaxWaitClock == 9000

\* no timer of this kind is pending
NoTimer == -1

InitWait ==
  /\ PageUnused
  /\ worker = Unused
  /\ run = Unused
  /\ subs = Unused
  /\ dom = Unused
  /\ tab = Unused
  /\ reminders = Unused
  /\ wait = [clock |-> 0, minTimer |-> MIN_WAIT_MS, checkTimer |-> NoTimer,
             safetyTimer |-> NoTimer, observer |-> "none", lastChangeTime |-> 0,
             checkCount |-> 0, resolved |-> FALSE,
             resolvedAt |-> NoTimer, quietAtResolve |-> 0]

WaitOnly == UNCHANGED <<pageVars, worker, run, subs, dom, tab, reminders>>

TimerDue(timer) == timer # NoTimer /\ timer <= wait.clock

\* time passes when no timer is due
Advance ==
  /\ wait.clock < MaxWaitClock
  /\ ~TimerDue(wait.minTimer)
  /\ ~TimerDue(wait.checkTimer)
  /\ ~TimerDue(wait.safetyTimer)
  /\ wait' = [wait EXCEPT !.clock = @ + CHECK_INTERVAL_MS \div 2]
  /\ WaitOnly

\* the page changes while the observer is connected: its callback sets
\* lastChangeTime
Mutation ==
  /\ wait.observer = "observing"
  /\ wait.lastChangeTime # wait.clock
  /\ wait' = [wait EXCEPT !.lastChangeTime = wait.clock]
  /\ WaitOnly

\* the minimum delay is over: the observer is connected and the two timers
\* are set
MinElapsed ==
  /\ TimerDue(wait.minTimer)
  /\ wait' = [wait EXCEPT
       !.minTimer = NoTimer,
       !.lastChangeTime = wait.clock,
       !.checkCount = 0,
       !.observer = "observing",
       !.checkTimer = wait.clock + CHECK_INTERVAL_MS,
       !.safetyTimer = wait.clock + (MAX_WAIT_MS - MIN_WAIT_MS)]
  /\ WaitOnly

\* timeSinceLastChange < 800 || checkCount >= maxChecks
IsStableBelow(timeSinceLastChange, checkCount) ==
  timeSinceLastChange < STABLE_MS \/ checkCount >= MAX_CHECKS

\* timeSinceLastChange > 800 || checkCount >= maxChecks
IsStable(timeSinceLastChange, checkCount) ==
  timeSinceLastChange > STABLE_MS \/ checkCount >= MAX_CHECKS

\* resolve(): the first call settles the promise
Resolved(w) ==
  IF w.resolved
    THEN w
    ELSE [w EXCEPT !.resolved = TRUE, !.resolvedAt = w.clock,
                   !.quietAtResolve = w.clock - w.lastChangeTime]

\* checkStable
CheckStable ==
  /\ TimerDue(wait.checkTimer)
  /\ wait' =
       IF IsStable(wait.clock - wait.lastChangeTime, wait.checkCount + 1)
         THEN Resolved([wait EXCEPT !.checkCount = @ + 1, !.checkTimer = NoTimer,
                                    !.observer = "disconnected"])
         ELSE [wait EXCEPT !.checkCount = @ + 1,
                           !.checkTimer = wait.clock + CHECK_INTERVAL_MS]
  /\ WaitOnly

\* the safety timeout
SafetyTimeout ==
  /\ TimerDue(wait.safetyTimer)
  /\ wait' = Resolved([wait EXCEPT !.safetyTimer = NoTimer,
                                   !.observer = "disconnected"])
  /\ WaitOnly

NextWait ==
  \/ Advance
  \/ Mutation
  \/ MinElapsed
  \/ CheckStable
  \/ SafetyTimeout

\* timers run and time passes
SpecWait == InitWait /\ [][NextWait]_vars /\ WF_vars(NextWait)

\* no timer is waiting to run at the present instant
NoTimerDue ==
  /\ ~TimerDue(wait.minTimer)
  /\ ~TimerDue(wait.checkTimer)
  /\ ~TimerDue(wait.safetyTimer)

WaitBounds ==
  /\ wait.resolved =>
       /\ wait.resolvedAt >= 3000
       /\ wait.resolvedAt <= 8000
       /\ wait.observer = "disconnected"
       /\ wait.resolvedAt < 8000 => wait.quietAtResolve > 800
  /\ (~wait.resolved /\ wait.observer = "observing" /\ NoTimerDue) =>
       wait.clock - wait.lastChangeTime < 800 + 100
  /\ (wait.clock >= 8000 /\ NoTimerDue) => wait.resolved

\* C24: waitForDynamicContent always completes.  The promise is never
\* resolved before 3000 ms have passed since the call; it is resolved by
\* the first check, made every 100 ms, that finds no change observed for
\* more than 800 ms, and before the 8000th millisecond only then; it is resolved at 8000 ms
\* at the latest, however often the page changes; and when it is resolved
\* the observer is disconnected.
C24_WaitCompletes == []WaitBounds /\ <>wait.resolved

\* the page kept changing and the wait ended at the maximum
C24_Witness ==
  /\ wait.resolved
  /\ wait.resolvedAt = MAX_WAIT_MS
  /\ wait.quietAtResolve = 0
  /\ wait.checkCount = MAX_CHECKS
  /\ wait.observer = "disconnected"

(***************************************************************************)
(* Content script: the page context (content/detector.ts, lines 1439-1460) *)
(* and the runs of detectOrderConfirmation and showSubscriptionPrompt in   *)
(* progress in it.                                                         *)
(*                                                                         *)
(* The script calls detectOrderConfirmation when the page is loaded and    *)
(* 500 ms after every change of location.href the observer of the document *)
(* sees.  A call runs up to its first await and every later step of the    *)
(* run begins when what it awaits is there: the settings, the end of the   *)
(* dynamic-content wait, the answer to ANALYZE_PAGE, the answer to         *)
(* GET_SUBSCRIPTIONS, the 500 ms timer of extractProductsFromDOM.  Nothing *)
(* keeps a second call from starting while a run is suspended, so          *)
(* tab.runs holds up to MaxRuns runs.  tab.now counts milliseconds in      *)
(* steps of 500; timers run at their time, answers take any time.          *)
(***************************************************************************)
MaxRuns == 2

MaxNavigations == 2

MaxTabClock == 4000

\* setTimeout(() => { detectOrderConfirmation() ... }, 500)
SPA_DELAY_MS == 500

\* await new Promise(r => setTimeout(r, 500)) in extractProductsFromDOM
DOM_SETTLE_MS == 500

\* /order|checkout|confirmation|receipt/i
ORDER_WORDS == Alt(<<L("order"), L("checkout"), L("confirmation"), L("receipt")>>)

\* the document the site shows at each location: document.title and
\* document.body.innerHTML
TabDocuments == {
  <<"https://shop.example.com/about", "Some Page", "<h1>Welcome to our store.</h1>">>,
  <<"https://shop.example.com/orders/98765", "Your order",
    "<p>Thank you for your purchase!</p> <p>Order #12345.</p>">>,
  <<"https://shop.example.com/checkout/order-confirmation", "Order Confirmation",
    "<p>Thank you for your purchase!</p>">> }

TabUrls == {d[1] : d \in TabDocuments}

\* what a run called at the location u finds when the document is d
TabPage(u, d) == [url |-> u, title |-> d[2], extracted |-> extractPageContent(d[3])]

\* a run keeps the URL it was called with and reads the document that is
\* there when it classifies: every URL with the document of every location,
\* classified, and with the test of line 101
TabSite ==
  UNION {UNION {{[classified |-> ClassifiedPage(p, pageInfo), shownAt |-> d[1],
                  wordInUrl |-> TestI(ORDER_WORDS, u)] : pageInfo \in {PageInfo(p)}} :
                  p \in {TabPage(u, d)}} : u \in TabUrls, d \in TabDocuments}

\* an answer that confirms the order and has a product
ConfirmedOrder ==
  [isOrderConfirmation |-> Bool(TRUE), confidence |-> Num(95, 2),
   products |-> <<DomProduct("Coffee Beans 1kg", Num(1999, 2), 2)>>,
   retailer |-> Str("Amazon"), orderNumber |-> Null]

\* the answers to ANALYZE_PAGE: none, a negative one, a confirming one
TabAnswers == {NoAnalysis, DEFAULT_RESULT, ConfirmedOrder}

\* what extractProductsFromDOM can find
TabDomResults == {<<>>, <<DomProduct("Garden Hose 15m", Num(2999, 2), 1)>>}

NoRun ==
  [pc |-> "none", call |-> 0, url |-> "", since |-> 0, isOrderDetails |-> FALSE,
   promptLikely |-> FALSE, message |-> [heuristicConfidence |-> 0], given |-> NoAnalysis]

\* the run has returned, or its promise is rejected and nothing handles it
Ended(how) == [NoRun EXCEPT !.pc = how]

InitTab ==
  /\ PageUnused
  /\ worker = Unused
  /\ run = Unused
  /\ subs = Unused
  /\ dom = Unused
  /\ wait = Unused
  /\ reminders = Unused
  /\ \E site \in {TabSite}, u \in TabUrls, stored \in {Undefined, Bool(FALSE)} :
       tab = [site |-> site, now |-> 0, location |-> u, lastUrl |-> u, timers |-> {},
              navigations |-> 0, stored |-> stored, lastProcessedUrl |-> u,
              lastProcessedTime |-> 0, calls |-> 1,
              runs |-> [i \in 1..MaxRuns |->
                          IF i = 1 THEN [NoRun EXCEPT !.pc = "settings", !.call = 1, !.url = u]
                                   ELSE NoRun],
              containers |-> <<>>]

TabOnly == UNCHANGED <<pageVars, worker, run, subs, dom, wait, reminders>>

InProgress(r) == r.pc \in {"settings", "waiting", "sent", "subscriptions", "extracting"}

FreeSlots == {i \in 1..MaxRuns : ~InProgress(tab.runs[i])}

\* time passes when no timer is due
TabLater ==
  /\ tab.now < MaxTabClock
  /\ \A t \in tab.timers : t > tab.now
  /\ tab' = [tab EXCEPT !.now = @ + SPA_DELAY_MS]
  /\ TabOnly

\* the page changes its location and the observer of the document sees it:
\* lastUrl = location.href, and the timer is set
Navigate ==
  /\ tab.navigations < MaxNavigations
  /\ \E u \in TabUrls \ {tab.location} :
       tab' = [tab EXCEPT !.location = u, !.lastUrl = u,
                          !.navigations = @ + 1,
                          !.timers = @ \cup {tab.now + SPA_DELAY_MS}]
  /\ TabOnly

\* detectOrderConfirmation up to its first await, in the page context t
Called(t) ==
  IF Debounced(t, t.location)
    THEN t
    ELSE LET i == SetMin(FreeSlots)
         IN  [t EXCEPT !.lastProcessedUrl = t.location,
                       !.lastProcessedTime = t.now,
                       !.calls = @ + 1,
                       !.runs[i] = [NoRun EXCEPT !.pc = "settings", !.call = t.calls + 1,
                                                 !.url = t.location]]

\* the timer of the observer runs: detectOrderConfirmation is called
TimerRuns ==
  /\ tab.now \in tab.timers
  /\ FreeSlots # {}
  /\ tab' = Called([tab EXCEPT !.timers = @ \ {tab.now}])
  /\ TabOnly

\* the URL u of a run with the document the page shows now
ClassifiedAt(u) ==
  CHOOSE c \in tab.site : c.classified.page.url = u /\ c.shownAt = tab.location

\* lines 113-192: the content is extracted and classified and the message
\* is sent, unless the run returns before
Classified(r, showOnOrderDetails) ==
  LET c == ClassifiedAt(r.url).classified
      shouldAnalyze == r.isOrderDetails \/ c.shouldAnalyzePage
  IN  IF Proceeds(r.isOrderDetails, showOnOrderDetails, shouldAnalyze)
        THEN [r EXCEPT
                !.pc = "sent",
                !.promptLikely =
                   \/ r.isOrderDetails
                   \/ /\ c.heuristicResult.isLikelyOrderConfirmation
                      /\ c.heuristicResult.confidence >= DOM_PROMPT_THRESHOLD,
                !.message =
                   [heuristicConfidence |->
                      Max2(c.heuristicResult.confidence, c.orderDetailsResult.confidence)]]
        ELSE Ended("returned")

\* the settings arrive: the URL is classified, and the run waits for the
\* dynamic content or goes on at once
SettingsArrive ==
  /\ \E i \in 1..MaxRuns :
       /\ tab.runs[i].pc = "settings"
       /\ LET c == ClassifiedAt(tab.runs[i].url)
              isOrderDetails == c.classified.orderDetailsResult.isLikelyOrderConfirmation
              r == [tab.runs[i] EXCEPT !.isOrderDetails = isOrderDetails]
          IN  tab' = [tab EXCEPT !.runs[i] =
                        IF isOrderDetails \/ c.wordInUrl
                          THEN [r EXCEPT !.pc = "waiting", !.since = tab.now]
                          ELSE Classified(r, ShowOnOrderDetails(tab.stored))]
  /\ TabOnly

\* chrome.storage.sync.get rejects: line 85 is in no try block, the promise
\* of the run is rejected and no caller handles it
SettingsReject ==
  /\ \E i \in 1..MaxRuns :
       /\ tab.runs[i].pc = "settings"
       /\ tab' = [tab EXCEPT !.runs[i] = Ended("rejected")]
  /\ TabOnly

\* waitForDynamicContent resolves, not before its minimum delay.  The run
\* read the setting before the wait.
WaitOver ==
  /\ \E i \in 1..MaxRuns, showOnOrderDetails \in BOOLEAN :
       /\ tab.runs[i].pc = "waiting"
       /\ tab.now - tab.runs[i].since >= MIN_WAIT_MS
       /\ showOnOrderDetails = ShowOnOrderDetails(tab.stored)
       /\ tab' = [tab EXCEPT !.runs[i] = Classified(@, showOnOrderDetails)]
  /\ TabOnly

\* extractPageContent or isLikelyOrderConfirmationPage throws: the catch
\* blocks of lines 121 and 136 return
ClassificationThrows ==
  /\ \E i \in 1..MaxRuns :
       /\ tab.runs[i].pc = "waiting"
       /\ tab.now - tab.runs[i].since >= MIN_WAIT_MS
       /\ tab' = [tab EXCEPT !.runs[i] = Ended("returned")]
  /\ TabOnly

\* showSubscriptionPrompt up to its first await
PromptCalled(t, i, given) ==
  IF t.containers # <<>>
    THEN [t EXCEPT !.runs[i] = Ended("returned")]
    ELSE [t EXCEPT !.runs[i].pc = "subscriptions", !.runs[i].given = given]

\* the answer to ANALYZE_PAGE arrives
AnalysisArrives ==
  /\ \E i \in 1..MaxRuns, finalAnalysis \in TabAnswers :
       /\ tab.runs[i].pc = "sent"
       /\ tab' =
            IF ~IsFalsy(finalAnalysis.isOrderConfirmation) /\ Len(finalAnalysis.products) > 0
              THEN PromptCalled(tab, i, finalAnalysis)
              ELSE IF tab.runs[i].promptLikely
                THEN PromptCalled(tab, i, AnalysisForDOM(tab.runs[i], finalAnalysis))
                ELSE [tab EXCEPT !.runs[i] = Ended("returned")]
  /\ TabOnly

\* sendMessage rejects, for ANALYZE_PAGE or for GET_SUBSCRIPTIONS: the catch
\* block of line 223 logs the error
MessageRejects ==
  /\ \E i \in 1..MaxRuns :
       /\ tab.runs[i].pc \in {"sent", "subscriptions"}
       /\ tab' = [tab EXCEPT !.runs[i] = Ended("returned")]
  /\ TabOnly

\* document.body.appendChild(container): the prompt of the run is in the
\* document
Presented(t, i) ==
  [t EXCEPT !.containers = Append(@, [url |-> t.runs[i].url, location |-> t.location,
                                      call |-> t.runs[i].call]),
            !.runs[i] = Ended("returned")]

\* the answer to GET_SUBSCRIPTIONS arrives: without products the run awaits
\* the timer of extractProductsFromDOM
SubscriptionsArrive ==
  /\ \E i \in 1..MaxRuns :
       /\ tab.runs[i].pc = "subscriptions"
       /\ Len(tab.containers) < MaxRuns
       /\ tab' = IF tab.runs[i].given.products = <<>>
                   THEN [tab EXCEPT !.runs[i].pc = "extracting", !.runs[i].since = tab.now]
                   ELSE Presented(tab, i)
  /\ TabOnly

\* extractProductsFromDOM returns
DomExtracted ==
  /\ \E i \in 1..MaxRuns, fromDOM \in TabDomResults :
       /\ tab.runs[i].pc = "extracting"
       /\ tab.now - tab.runs[i].since >= DOM_SETTLE_MS
       /\ Len(tab.containers) < MaxRuns
       /\ Len(ProductsToShow(tab.runs[i].given.products, fromDOM)) > 0
       /\ tab' = Presented(tab, i)
  /\ TabOnly

\* the user closes a prompt: its container is removed
PromptClosed ==
  /\ \E k \in DOMAIN tab.containers :
       tab' = [tab EXCEPT !.containers =
                 SubSeq(@, 1, k - 1) \o SubSeq(@, k + 1, Len(@))]
  /\ TabOnly

NextTab ==
  \/ TabLater
  \/ Navigate
  \/ TimerRuns
  \/ SettingsArrive
  \/ SettingsReject
  \/ WaitOver
  \/ ClassificationThrows
  \/ AnalysisArrives
  \/ MessageRejects
  \/ SubscriptionsArrive
  \/ DomExtracted
  \/ PromptClosed

SpecTab == InitTab /\ [][NextTab]_vars

\* run i begins to extract and classify its page in this step
StartsClassification(i) ==
  /\ tab.runs[i].pc \in {"settings", "waiting"}
  /\ tab'.runs[i].pc \in {"sent", "returned"}

\* run j was called before run i and is suspended in the dynamic-content
\* wait or in the ANALYZE_PAGE request
SuspendedBefore(j, i) ==
  /\ tab.runs[j].pc \in {"waiting", "sent"}
  /\ tab.runs[j].call < tab.runs[i].call

\* C22: at most one detection run is active in a page context: whatever the
\* load and navigation triggers are, no run of detectOrderConfirmation
\* begins its classification while a run called before it in the same page
\* is suspended in the dynamic-content wait or in the ANALYZE_PAGE request.
C22_OneActiveRun ==
  [][\A i \in 1..MaxRuns : StartsClassification(i) =>
       \A j \in 1..MaxRuns \ {i} : ~SuspendedBefore(j, i)]_vars

\* C23: a stale analysis is never presented: every prompt in the document
\* was produced by a run whose URL was the location of the page when the
\* prompt was presented.
C23_NoStalePrompt ==
  \A k \in DOMAIN tab.containers : tab.containers[k].url = tab.containers[k].location

\* C26: a detection run never ends with a rejected promise that nothing
\* handles, whichever call of it fails.
C26_NoRejectedRun ==
  \A i \in 1..MaxRuns : tab.runs[i].pc # "rejected"

\* C30: the document holds at most one subscription-prompt container,
\* whatever the interleaving of the runs that reach showSubscriptionPrompt.
C30_OneContainer ==
  Len(tab.containers) <= 1

(***************************************************************************)
(* Reminders (lib/reminders.ts) in the service worker.                     *)
(*                                                                         *)
(* The service worker calls initializeReminderSystem and then registers    *)
(* its own listeners (background/service-worker.ts, lines 25, 269, 272).   *)
(* An event keeps the set of its listeners: a function added twice is      *)
(* called once, two different functions are both called.  Every await of   *)
(* checkDueReminders and of handleNotificationClick is a step, so checks   *)
(* that run at the same time interleave at their requests.  Requests to    *)
(* the table and to chrome.storage are taken to succeed.  Time is a day    *)
(* number, for dates, and a count of milliseconds, for Date.now().         *)
(***************************************************************************)
MaxChecks == 2

MaxChecksStarted == 2

MaxClicks == 1

MaxReminderDay == 1

MaxMs == 1

\* the functions chrome.alarms.onAlarm.addListener was called with
AlarmListeners == {"reminders.ts:173", "service-worker.ts:272"}

\* the functions chrome.notifications.onButtonClicked.addListener was called
\* with: handleNotificationClick, twice
ButtonListeners == {"handleNotificationClick"} \cup {"handleNotificationClick"}

\* the ids of the two subscriptions of the table: the column is a uuid, the
\* tests use 'sub-123'
SubscriptionIds ==
  {<<"123e4567-e89b-12d3-a456-426614174000", "sub-123">>, <<"sub-123", "c0ffee">>}

\* String(n) of a natural number
RECURSIVE NumberString(_)
NumberString(n) ==
  IF n < 10
    THEN SubSeq("0123456789", n + 1, n + 1)
    ELSE NumberString(n \div 10) \o SubSeq("0123456789", (n % 10) + 1, (n % 10) + 1)

\* `reminder-${subscription.id}-${Date.now()}`
NotificationId(id, now) == "reminder-" \o id \o "-" \o NumberString(now)

\* /reminder-([^-]+)/
REMINDER_ID == Cat(<<L("reminder-"), Plus(Cls("notdash"))>>)

NoMatch == [given |-> FALSE, value |-> ""]

\* notificationId.match(/reminder-([^-]+)/): the first group of the leftmost
\* match, which is the longest one there
MatchReminderId(notificationId) ==
  LET starts == {i \in 1..Len(notificationId) : M(REMINDER_ID, notificationId, i) # {}}
  IN  IF starts = {}
        THEN NoMatch
        ELSE LET i == SetMin(starts)
                 e == SetMax(M(REMINDER_ID, notificationId, i))
             IN  [given |-> TRUE,
                  value |-> SubSeq(notificationId, i + Len("reminder-"), e - 1)]

\* a subscription created the day before, with frequency_days 1
DueRow(id, productUrl) ==
  [id |-> id, frequency_days |-> 1, last_ordered_at |-> Date(-1),
   next_reminder_at |-> Date(0), product_url |-> productUrl]

IdleCheck ==
  [pc |-> "idle", due |-> <<>>, today |-> 0, notifiedToday |-> {}, current |-> 0,
   notified |-> <<>>]

IdleClick ==
  [pc |-> "idle", notificationId |-> "", buttonIndex |-> 0, subscriptionId |-> NoMatch,
   target |-> 0, before |-> Date(0), row |-> 0]

InitReminders ==
  /\ PageUnused
  /\ worker = Unused
  /\ run = Unused
  /\ subs = Unused
  /\ dom = Unused
  /\ wait = Unused
  /\ tab = Unused
  /\ \E ids \in SubscriptionIds :
       /\ reminders =
            [day |-> 0, ms |-> 0,
             rows |-> <<DueRow(ids[1], Str("https://shop.example.com/dp/B000")),
                        DueRow(ids[2], Null)>>,
             storage |-> [notifiedSubscriptions |-> <<>>, notifiedDate |-> Undefined],
             checks |-> [k \in 1..MaxChecks |-> IdleCheck],
             started |-> 0,
             notifications |-> {},
             creates |-> [i \in 1..2, d \in 0..MaxReminderDay |-> 0],
             click |-> IdleClick, clicks |-> 0, marks |-> 0, opened |-> 0]

RemindersOnly == UNCHANGED <<pageVars, worker, run, subs, dom, wait, tab>>

MsPasses ==
  /\ reminders.ms < MaxMs
  /\ reminders' = [reminders EXCEPT !.ms = @ + 1]
  /\ RemindersOnly

DayPasses ==
  /\ reminders.day < MaxReminderDay
  /\ reminders' = [reminders EXCEPT !.day = @ + 1]
  /\ RemindersOnly

IdleChecks == {k \in 1..MaxChecks : reminders.checks[k].pc = "idle"}

\* checkDueReminders is called: getDueSubscriptions is sent
CheckCalled(check) == [check EXCEPT !.pc = "due"]

\* the alarm 'check-reminders' fires: every listener of onAlarm calls
\* checkDueReminders
AlarmFires ==
  /\ reminders.started + Cardinality(AlarmListeners) <= MaxChecksStarted
  /\ \E K \in SUBSET IdleChecks :
       /\ Cardinality(K) = Cardinality(AlarmListeners)
       /\ reminders' = [reminders EXCEPT
            !.checks = [k \in 1..MaxChecks |-> IF k \in K THEN CheckCalled(@[k]) ELSE @[k]],
            !.started = @ + Cardinality(AlarmListeners)]
  /\ RemindersOnly

\* the message CHECK_REMINDERS arrives
CheckRemindersMessage ==
  /\ reminders.started < MaxChecksStarted
  /\ IdleChecks # {}
  /\ \E k \in {SetMin(IdleChecks)} :
       reminders' = [reminders EXCEPT !.checks[k] = CheckCalled(@), !.started = @ + 1]
  /\ RemindersOnly

\* .lte('next_reminder_at', now): the rows that are due, in the order of the
\* table
RECURSIVE DueRows(_, _, _)
DueRows(rows, today, i) ==
  IF i > Len(rows)
    THEN <<>>
    ELSE (IF isDueForReminder(rows[i], today) THEN <<i>> ELSE <<>>)
           \o DueRows(rows, today, i + 1)

\* getDueSubscriptions answers; getNotifiedToday reads the storage
DueArrives ==
  /\ \E k \in 1..MaxChecks :
       /\ reminders.checks[k].pc = "due"
       /\ reminders' = [reminders EXCEPT
            !.checks[k].pc = "notified",
            !.checks[k].due = DueRows(reminders.rows, reminders.day, 1),
            !.checks[k].today = reminders.day]
  /\ RemindersOnly

\* the subscriptions of the list that come before the first one that is not
\* in notifiedToday are passed over
RECURSIVE NotYetNotified(_, _, _)
NotYetNotified(due, rows, notifiedToday) ==
  IF due = <<>> \/ rows[Head(due)].id \notin notifiedToday
    THEN due
    ELSE NotYetNotified(Tail(due), rows, notifiedToday)

\* the loop of checkDueReminders in the state rs, up to its next await:
\* sendBrowserNotification creates the notification of the next subscription
\* that is not in notifiedToday, and recordNotification reads the storage
Loop(rs, k) ==
  LET check == rs.checks[k]
      due == NotYetNotified(check.due, rs.rows, check.notifiedToday)
  IN  IF due = <<>>
        THEN [rs EXCEPT !.checks[k] = IdleCheck]
        ELSE LET i == Head(due)
                 notificationId == NotificationId(rs.rows[i].id, rs.ms)
             IN  [rs EXCEPT
                    !.checks[k].pc = "recordGet",
                    !.checks[k].due = Tail(due),
                    !.checks[k].current = i,
                    !.checks[k].today = rs.day,
                    !.notifications =
                       {n \in @ : n.id # notificationId}
                         \cup {[id |-> notificationId, subscription |-> i]},
                    !.creates[i, rs.day] = @ + 1]

\* getNotifiedToday: the storage answers
NotifiedArrives ==
  /\ \E k \in 1..MaxChecks :
       /\ reminders.checks[k].pc = "notified"
       /\ reminders' =
            IF reminders.storage.notifiedDate # Date(reminders.checks[k].today)
              THEN [reminders EXCEPT !.checks[k].pc = "reset"]
              ELSE Loop([reminders EXCEPT !.checks[k].notifiedToday =
                           {reminders.storage.notifiedSubscriptions[j] :
                              j \in DOMAIN reminders.storage.notifiedSubscriptions}], k)
  /\ RemindersOnly

\* getNotifiedToday: the storage is reset for the new day
ResetDone ==
  /\ \E k \in 1..MaxChecks :
       /\ reminders.checks[k].pc = "reset"
       /\ reminders' =
            Loop([reminders EXCEPT
                    !.storage = [notifiedSubscriptions |-> <<>>,
                                 notifiedDate |-> Date(reminders.checks[k].today)],
                    !.checks[k].notifiedToday = {}], k)
  /\ RemindersOnly

\* recordNotification: the storage answers, the id is pushed
RecordGot ==
  /\ \E k \in 1..MaxChecks :
       /\ reminders.checks[k].pc = "recordGet"
       /\ LET check == reminders.checks[k]
              notified == IF reminders.storage.notifiedDate # Date(check.today)
                            THEN <<>>
                            ELSE reminders.storage.notifiedSubscriptions
          IN  reminders' = [reminders EXCEPT
                !.checks[k].pc = "recordSet",
                !.checks[k].notified = Append(notified, reminders.rows[check.current].id)]
  /\ RemindersOnly

\* recordNotification: the storage is written, and the loop goes on
RecordSet ==
  /\ \E k \in 1..MaxChecks :
       /\ reminders.checks[k].pc = "recordSet"
       /\ reminders' =
            Loop([reminders EXCEPT
                    !.storage = [notifiedSubscriptions |-> reminders.checks[k].notified,
                                 notifiedDate |-> Date(reminders.checks[k].today)],
                    !.checks[k].notified = <<>>], k)
  /\ RemindersOnly

\* one click on a button of a notification: every listener of
\* onButtonClicked is called; handleNotificationClick up to getSubscription
ButtonClicked ==
  /\ reminders.clicks < MaxClicks
  /\ reminders.click.pc \in {"idle", "handled"}
  /\ \E n \in reminders.notifications, buttonIndex \in {0, 1}, listener \in ButtonListeners :
       LET match == MatchReminderId(n.id)
       IN  reminders' = [reminders EXCEPT
             !.clicks = @ + 1,
             !.click = [IdleClick EXCEPT
                          !.pc = IF match.given THEN "get" ELSE "handled",
                          !.notificationId = n.id,
                          !.buttonIndex = buttonIndex,
                          !.subscriptionId = match,
                          !.target = n.subscription,
                          !.before = reminders.rows[n.subscription].next_reminder_at]]
  /\ RemindersOnly

\* .eq('id', id).single()
RowsWithId(rows, id) == {i \in DOMAIN rows : rows[i].id = id}

\* chrome.notifications.clear(notificationId)
Cleared(rs) ==
  [rs EXCEPT !.notifications = {n \in @ : n.id # rs.click.notificationId},
             !.click.pc = "handled"]

\* getSubscription answers: without a row markAsOrdered and snoozeReminder
\* return null, with one they send their update
SubscriptionArrives ==
  /\ reminders.click.pc = "get"
  /\ LET found == RowsWithId(reminders.rows, reminders.click.subscriptionId.value)
     IN  reminders' =
           IF found = {}
             THEN Cleared(reminders)
             ELSE [reminders EXCEPT !.click.pc = "update",
                                    !.click.row = CHOOSE i \in found : TRUE]
  /\ RemindersOnly

\* the update of markAsOrdered (button 0) or of snoozeReminder(id, 1)
\* (button 1) is applied, and the notification is cleared
UpdateApplied ==
  /\ reminders.click.pc = "update"
  /\ LET i == reminders.click.row
         current == reminders.rows[i]
     IN  reminders' =
           IF reminders.click.buttonIndex = 0
             THEN Cleared([reminders EXCEPT
                    !.rows[i].last_ordered_at = Date(reminders.day),
                    !.rows[i].next_reminder_at =
                       calculateNextReminderDate(Date(reminders.day), current.frequency_days,
                                                 reminders.day),
                    !.marks = @ + 1,
                    !.opened = IF IsFalsy(current.product_url) THEN @ ELSE @ + 1])
             ELSE Cleared([reminders EXCEPT
                    !.rows[i].next_reminder_at = Date(current.next_reminder_at.v + 1)])
  /\ RemindersOnly

NextReminders ==
  \/ MsPasses
  \/ DayPasses
  \/ AlarmFires
  \/ CheckRemindersMessage
  \/ DueArrives
  \/ NotifiedArrives
  \/ ResetDone
  \/ RecordGot
  \/ RecordSet
  \/ ButtonClicked
  \/ SubscriptionArrives
  \/ UpdateApplied

SpecReminders == InitReminders /\ [][NextReminders]_vars

\* C27: at most one notification is created for a subscription on one day,
\* whatever alarms and CHECK_REMINDERS messages there are and however the
\* checks interleave.
C27_OncePerDay ==
  \A i \in 1..2, d \in 0..MaxReminderDay : reminders.creates[i, d] <= 1

\* the only click made has been handled
OneClickHandled == reminders.clicks = 1 /\ reminders.click.pc = "handled"

\* C28: one click on a button of a notification is handled exactly once:
\* Snooze moves next_reminder_at of the notification's subscription forward
\* by exactly one day; Reorder Now makes exactly one markAsOrdered update
\* and opens the product URL at most once.
C28_ClickHandledOnce ==
  OneClickHandled =>
    IF reminders.click.buttonIndex = 1
      THEN reminders.rows[reminders.click.target].next_reminder_at
             = Date(reminders.click.before.v + 1)
      ELSE reminders.marks = 1 /\ reminders.opened <= 1

\* C29: handleNotificationClick, given the notification ID that
\* sendBrowserNotification built for a subscription, acts on the id of that
\* subscription, also when the id contains '-'.
C29_NotificationIdRoundTrip ==
  reminders.click.pc # "idle" =>
    /\ reminders.click.subscriptionId.given
    /\ reminders.click.subscriptionId.value = reminders.rows[reminders.click.target].id

====
